---------------------------- MODULE Spec2Model ----------------------------
(***************************************************************************)
(* ssh-opencode: the session relay (ssh-relay/internal/session), its key   *)
(* registry (ssh-relay/internal/auth), the intermediate tier               *)
(* (worker/src/container-manager.ts) and the pseudo-terminal bridge        *)
(* (pty-bridge, HTTP + WebSocket variant).                                 *)
(*                                                                         *)
(* The module holds several specifications over the same variables:        *)
(*   Spec          the bridge from its start: inits race, a push stream    *)
(*   SpecStream    push streams on a running process, reader, exit waiter  *)
(*   SpecPoll      buffered reads and status queries around the exit       *)
(*   SpecBuffer    the Output Buffer under the reader and one poller       *)
(*   SpecRelay     the relay's session handler and its four goroutines     *)
(*   SpecRelayFair SpecRelay with weak fairness of every goroutine         *)
(*   SpecPipe      relay, tier and bridge between client and terminal      *)
(*   SpecAuth      public-key authentication against the key registry      *)
(*   SpecFrames    the bridge frame by frame, ill-formed frames included   *)
(*   SpecLock      the handlers that take session.mu around the terminal   *)
(*   SpecPollers   two pollers draining the Output Buffer under the reader *)
(*   SpecCodec     the relay's message codec and the text of error messages*)
(*   SpecPing      pings at the tier and at the bridge's push stream       *)
(*   SpecWrites    writes on one push-stream connection, begin to end      *)
(*   SpecTier      the tier's container streams, their opening and closing *)
(*   SpecEntries   the write, write-then-read and resize entries by steps   *)
(*   SpecDev       the local development proxy's session handler           *)
(*   SpecTcp       one connection of the bridge's line-oriented TCP variant*)
(***************************************************************************)
EXTENDS Integers, Sequences, FiniteSets, TLC

(***************************************************************************)
(* Bounds of the model.                                                    *)
(***************************************************************************)
\* bytes the output reader takes from the pseudo-terminal in one run
MaxOut == 2
\* messages one push stream sends after its init (data, resize, ping)
MaxWsMsgs == 1
\* HTTP calls to the read, status, write, writeread and resize entries
MaxPolls == 3

\* push-stream connections and HTTP init requests of one run
Conns == {"w1", "w2"}
Reqs == {"h1", "h2"}
\* terminal geometries <<cols, rows>> an init or a resize may carry
Geoms == {<<80, 24>>, <<120, 40>>}
\* exit codes of the terminal process
ExitCodes == {0, 2}

(***************************************************************************)
(* Sequences.                                                              *)
(***************************************************************************)
RECURSIVE Concat(_)
Concat(ss) == IF ss = <<>> THEN <<>> ELSE Head(ss) \o Concat(Tail(ss))

RECURSIVE SelectMsgs(_, _)
SelectMsgs(s, types) ==
    IF s = <<>> THEN <<>>
    ELSE IF Head(s).type \in types
         THEN <<Head(s)>> \o SelectMsgs(Tail(s), types)
         ELSE SelectMsgs(Tail(s), types)

(***************************************************************************)
(* base64.StdEncoding.  A byte is 0..255; an encoded character is its      *)
(* index 0..63 in the standard alphabet, and Pad is '='.                   *)
(***************************************************************************)
Pad == 64

RECURSIVE EncodeToString(_)
EncodeToString(bs) ==
    IF Len(bs) = 0 THEN <<>>
    ELSE IF Len(bs) = 1 THEN
        << bs[1] \div 4, (bs[1] % 4) * 16, Pad, Pad >>
    ELSE IF Len(bs) = 2 THEN
        << bs[1] \div 4, (bs[1] % 4) * 16 + (bs[2] \div 16), (bs[2] % 16) * 4, Pad >>
    ELSE
        << bs[1] \div 4,
           (bs[1] % 4) * 16 + (bs[2] \div 16),
           (bs[2] % 16) * 4 + (bs[3] \div 64),
           bs[3] % 64 >> \o EncodeToString(SubSeq(bs, 4, Len(bs)))

\* DecodeString: [ok, bytes]; ok is FALSE on a CorruptInputError
RECURSIVE DecodeString(_)
DecodeString(cs) ==
    IF Len(cs) = 0 THEN [ok |-> TRUE, bytes |-> <<>>]
    ELSE IF Len(cs) < 4 THEN [ok |-> FALSE, bytes |-> <<>>]
    ELSE IF cs[1] = Pad \/ cs[2] = Pad THEN [ok |-> FALSE, bytes |-> <<>>]
    ELSE IF cs[3] = Pad THEN
        IF cs[4] = Pad /\ Len(cs) = 4
        THEN [ok |-> TRUE, bytes |-> << cs[1] * 4 + (cs[2] \div 16) >>]
        ELSE [ok |-> FALSE, bytes |-> <<>>]
    ELSE IF cs[4] = Pad THEN
        IF Len(cs) = 4
        THEN [ok |-> TRUE,
              bytes |-> << cs[1] * 4 + (cs[2] \div 16),
                           (cs[2] % 16) * 16 + (cs[3] \div 4) >>]
        ELSE [ok |-> FALSE, bytes |-> <<>>]
    ELSE LET rest == DecodeString(SubSeq(cs, 5, Len(cs)))
         IN  [ok |-> rest.ok,
              bytes |-> IF rest.ok
                        THEN << cs[1] * 4 + (cs[2] \div 16),
                                (cs[2] % 16) * 16 + (cs[3] \div 4),
                                (cs[3] % 4) * 64 + cs[4] >> \o rest.bytes
                        ELSE <<>>]

(***************************************************************************)
(* The wire message of the bridge (pty-bridge Message struct).  A field    *)
(* that json omits (omitempty) is the zero value.  The repo field only     *)
(* selects the working directory and is left out.                          *)
(***************************************************************************)
Message(t, cols, rows, data, code, message, timestamp) ==
    [type |-> t, cols |-> cols, rows |-> rows, data |-> data, code |-> code,
     message |-> message, timestamp |-> timestamp]

DataMsg(bytes) == Message("data", 0, 0, EncodeToString(bytes), 0, "", 0)
\* (mutant) an exit message that leaves the code out
ExitMsgNoCode(code) == Message("exit", 0, 0, <<>>, 0, "", 0)
ExitMsg(code) == Message("exit", 0, 0, <<>>, code, "", 0)
PongMsg(text, ts) == Message("pong", 0, 0, <<>>, 0, text, ts)
ErrorMsg(text) == Message("error", 0, 0, <<>>, 0, text, 0)

\* the k-th byte the terminal process produces (k = 1, 2, ...): pairwise
\* different for small k, with control and non-ASCII bytes among them
StreamByte(k) == (27 + 114 * (k - 1)) % 256
StreamBytes(from, to) == [i \in 1..(to - from + 1) |-> StreamByte(from + i - 1)]


(***************************************************************************)
(* The bridge (pty-bridge, HTTP + WebSocket).                              *)
(*                                                                         *)
(* A critical section that takes session.mu, the buffer's mutex or the     *)
(* write side of clientsMu and does not block inside is one step.          *)
(* Broadcast holds the read side of clientsMu over one write per client,   *)
(* so it is a begin step, one step per write and an end step.              *)
(***************************************************************************)
VARIABLES
    alive,        \* the bridge process runs (FALSE after os.Exit)
    sessionOnce,  \* sync.Once: "new" or "done"
    session,      \* the global session pointer: "nil" or "set"
    isRunning,    \* session.isRunning
    exitCode,     \* session.exitCode
    done,         \* session.done is closed
    winsize,      \* geometry of the pseudo-terminal, <<cols, rows>>
    output,       \* session.output.data, the Output Buffer
    clients,      \* session.clients, the Client Set
    pc,           \* position of every handler and goroutine
    geom,         \* geometry carried by the init a handler is serving
    btodo,        \* per Broadcast call: clients it has still to write to
    bmsg,         \* per Broadcast call: the message it writes
    rdflags,      \* per buffered read: isRunning and exitCode as it read them
    nTaken,       \* bytes the output reader has taken from the pseudo-terminal
    ptyIn,        \* bytes written to the pseudo-terminal, in order
    sent,         \* per push stream: messages written to it, in order
    spawned,      \* how often pty.StartWithSize started a process
    sessionsMade, \* how often a PTYSession was assigned to session
    winApplied,   \* <<handler, geometry>> of every setWinsize an init handler made
    nWsMsgs,      \* per push stream: messages it sent after its init
    nBcast,       \* Broadcast calls begun so far
    attachedAt,   \* per push stream: nBcast when AddClient added it
    chunks,       \* per chunk the reader took: its data message and who was in the
                  \* Client Set when its Broadcast took the lock
    span,         \* per push stream: chunks taken before AddClient, before RemoveClient
    clientsAtExit,\* the Client Set when the exit was recorded
    exitAudience, \* the Client Set when the exit broadcast took clientsMu
    readLog,      \* replies to buffered reads, in the order produced
    statusLog,    \* replies to status queries, in the order produced
    nPolls,       \* HTTP calls to read, status, write, writeread, resize so far
    sinceDrain,   \* bytes appended to the Output Buffer since it was last drained
    overflowed    \* the Output Buffer has dropped bytes at least once

bridgeVars == << alive, sessionOnce, session, isRunning, exitCode, done, winsize,
                 output, clients, pc, geom, btodo, bmsg, rdflags, nTaken, ptyIn,
                 sent, spawned, sessionsMade, winApplied, nWsMsgs, nBcast,
                 attachedAt, chunks, span, clientsAtExit, exitAudience, readLog, statusLog,
                 nPolls, sinceDrain, overflowed >>

(***************************************************************************)
(* The relay session handler (ssh-relay/internal/session, Handler).        *)
(***************************************************************************)
VARIABLES
    rpc,          \* position of the handler and of its four goroutines
    fingerprint,  \* auth.GetFingerprint(s.Context()), "" when there is none
    isPty,        \* the client asked for a pseudo-terminal
    rdone,        \* the handler's done channel is closed
    endCause,     \* per goroutine: why it returned, "" while it runs
    sshExit,      \* status given to s.Exit, -1 before
    toClient,     \* what was written to the SSH session, in order
    wsOut,        \* messages written to the downstream stream, in order
    wsIn,         \* messages downstream has sent that ReadMessage has not returned
    peerClosed,   \* downstream closed or reset the stream
    connClosed,   \* conn.Close() has run
    sshIn,        \* chunks the client typed that s.Read has not returned
    clientEOF,    \* the client closed its side of the SSH session
    winCh,        \* window changes queued on winCh
    exitRecv,     \* code of the exit message the reader handled, -1 before
    nKeys,        \* chunks the client typed so far
    nDown,        \* messages downstream sent so far
    nTicks,       \* ticks of the ping ticker so far
    nWin,         \* window changes so far
    dial,         \* dialer.Dial: "none" before the call, then "ok" or "failed"
    nClose,       \* times close(done) has run
    nExit         \* times s.Exit has run

relayVars == << rpc, fingerprint, isPty, rdone, endCause, sshExit, toClient, wsOut,
                wsIn, peerClosed, connClosed, sshIn, clientEOF, winCh, exitRecv,
                nKeys, nDown, nTicks, nWin, dial, nClose, nExit >>

(***************************************************************************)
(* The path between the client and the terminal: the relay's forwarder,    *)
(* the intermediate tier's message handlers and its requests in flight.    *)
(***************************************************************************)
VARIABLES
    typed,            \* chunks the relay read from the client, in order
    upQ,              \* messages from the relay the tier has not handled yet
    containerWsReady, \* the tier's containerWsReady
    cwsUp,            \* messages the tier sent on the container stream, unread
    cwsDown,          \* messages the bridge wrote to the container stream, unread
    flight,           \* HTTP requests the tier has sent and the bridge serves
    replies,          \* HTTP replies written, the tier's await not yet resumed
    toRelay,          \* messages the tier sent to the relay, in order
    nReq,             \* HTTP requests the tier has made so far
    nRelayPings       \* pings the relay has sent so far

pipeVars == << typed, upQ, containerWsReady, cwsUp, cwsDown, flight, replies,
               toRelay, nReq, nRelayPings >>

(***************************************************************************)
(* Public-key authentication (ssh-relay/internal/auth): the handler made   *)
(* by NewPublicKeyHandler and the registry's table of keys.                *)
(***************************************************************************)
VARIABLES
    keys,         \* rows of the keys table, one per fingerprint
    keys0,        \* the rows when the relay started
    autoRegister, \* the handler's autoRegister
    apc,          \* per connection: position of its authentication
    akey,         \* per connection: the public key it presents
    aexists,      \* per connection: what KeyExists returned
    aresult,      \* per connection: what the handler returned, "" before
    acause,       \* per connection: why the handler returned false, "" otherwise
    ctxValue,     \* per connection: ctx.Value("fingerprint"), "" when unset
    nRegs,        \* per connection: RegisterKey calls that wrote a row
    mutatedBy,    \* connections whose handler or session changed the table
    aclock        \* time.Now(), counted in writes

authVars == << keys, keys0, autoRegister, apc, akey, aexists, aresult, acause,
               ctxValue, nRegs, mutatedBy, aclock >>

(***************************************************************************)
(* Frames received by the bridge, one by one, and what became of each.     *)
(***************************************************************************)
VARIABLES
    wsLog,        \* per push stream: the frames it sent and how each was handled
    httpLog       \* the bodies posted to the write entry and how each was handled

frameVars == << wsLog, httpLog >>

(***************************************************************************)
(* session.mu, the lock of the terminal, and the handlers that take it.    *)
(***************************************************************************)
VARIABLES
    mu,           \* who holds session.mu for writing, "" when nobody does
    muReaders,    \* who holds session.mu for reading
    lpc,          \* per handler: where it stands around its critical section
    lop,          \* per handler: what it does to the terminal, "write" or "resize"
    inPty,        \* the handlers inside ptmx.Write or setWinsize
    nOps          \* per handler: critical sections it has left

lockVars == << mu, muReaders, lpc, lop, inPty, nOps >>

(***************************************************************************)
(* The relay's message codec (proxy.Message) applied to one input.         *)
(***************************************************************************)
VARIABLES
    cpc,          \* where the codec stands: "idle", "start", "sent", "received"
    cbytes,       \* the bytes read from the client
    ccall,        \* the constructor call to make
    cmsg,         \* the message built
    cwire,        \* the JSON object written to the WebSocket
    cparsed,      \* what ParseMessage made of it
    cdecoded      \* what DecodeString made of the parsed data field

codecVars == << cpc, cbytes, ccall, cmsg, cwire, cparsed, cdecoded >>

(***************************************************************************)
(* Writes on the bridge's push-stream connections, from begin to end.      *)
(***************************************************************************)
VARIABLES
    inWrite       \* pairs <<goroutine, connection>>: the goroutine is inside a
                  \* WriteMessage or WriteJSON on the connection

writeVars == << inWrite >>

(***************************************************************************)
(* The tier's container push streams, one per connectContainerWebSocket    *)
(* call that obtained one.                                                 *)
(***************************************************************************)
VARIABLES
    containerWs,  \* the stream this.containerWs refers to, "null" for none
    wsState,      \* per stream: "unused", "open", "closing" (close() was called,
                  \* its close event is still to come) or "closed"
    tcall,        \* per caller of connectContainerWebSocket: where the call stands
    squeue,       \* per stream: bridge broadcasts its listener has not handled
    forwarded,    \* what the listeners have forwarded to the client, in order
    nChunks       \* broadcasts of the bridge so far

tierVars == << containerWs, wsState, tcall, squeue, forwarded, nChunks >>

(***************************************************************************)
(* The bridge's write, write-then-read and resize entries, one request at  *)
(* a time on each, from the guard to the reply.                            *)
(***************************************************************************)
VARIABLES
    epc,          \* per entry: where its handler stands
    ereq,         \* per entry: the request in hand and what the handler did so far
    elog          \* the requests answered, in order of their replies

entryVars == << epc, ereq, elog >>

(***************************************************************************)
(* The local development proxy (handleWebSocket of the local proxy): one   *)
(* client stream, the goroutine polling the container's read entry and the *)
(* goroutine reading the stream.                                           *)
(***************************************************************************)
VARIABLES
    dalive,       \* the proxy process runs (FALSE after a panic)
    dpc,          \* where the handler, its poller and its reader stand
    ddone,        \* the handler's done channel is closed
    dcloses,      \* close(done) calls made so far
    dpeer,        \* the client's end of the stream: "open" or "closed"
    dlines,       \* the lines of the body the poller is forwarding
    dsent,        \* what was written to the client's stream, in order
    dposted,      \* what was posted to the container's write entry, in order
    dnReads,      \* bodies the container's read entry has returned
    dnMsgs        \* messages the client has sent

devVars == << dalive, dpc, ddone, dcloses, dpeer, dlines, dsent, dposted, dnReads,
              dnMsgs >>

(***************************************************************************)
(* The line-oriented TCP variant of the bridge (handleConnection): one     *)
(* connection, its terminal process, the output goroutine and the input    *)
(* goroutine.                                                              *)
(***************************************************************************)
VARIABLES
    tcpAlive,     \* the bridge process runs (FALSE after a panic)
    tcpPc,        \* where the handler and its two goroutines stand
    tcpDone,      \* the connection's done channel is closed
    tcpCloses,    \* close(done) calls made so far
    tcpRunning,   \* the terminal process of the connection runs
    tcpCode,      \* its exit code
    tcpPeer,      \* the peer's end of the connection: "open" or "closed"
    tcpSent,      \* the messages written to the connection, in order
    tcpPtyIn,     \* the bytes written to the pseudo-terminal
    tcpWinsize,   \* the geometry of the pseudo-terminal
    tcpLines,     \* lines the peer has sent after the init
    tcpOut        \* chunks the output goroutine has read

tcpVars == << tcpAlive, tcpPc, tcpDone, tcpCloses, tcpRunning, tcpCode, tcpPeer, tcpSent,
              tcpPtyIn, tcpWinsize, tcpLines, tcpOut >>

\* the groups added to the three processes' own
extraVars == << frameVars, lockVars, codecVars, writeVars, tierVars,
               entryVars,
               devVars,
               tcpVars >>

vars == << bridgeVars, relayVars, pipeVars, authVars, extraVars >>

\* what a step of the bridge alone leaves as it is
offBridge == << relayVars, pipeVars, authVars, extraVars >>
\* what a step of the relay handler alone leaves as it is
offRelay == << bridgeVars, pipeVars, authVars, extraVars >>
\* what a step of authentication alone leaves as it is
offAuth == << bridgeVars, relayVars, pipeVars, extraVars >>
\* what a step of the bridge on a frame leaves as it is
offFrames == << relayVars, pipeVars, authVars, lockVars, codecVars, writeVars,
                tierVars,
                entryVars,
                devVars,
                tcpVars >>
\* what a step around session.mu leaves as it is
offLock == << bridgeVars, relayVars, pipeVars, authVars, frameVars, codecVars, writeVars,
              tierVars,
                entryVars,
                devVars,
                tcpVars >>
\* what a step of the codec leaves as it is
offCodec == << bridgeVars, relayVars, pipeVars, authVars, frameVars, lockVars, writeVars,
               tierVars,
                entryVars,
                devVars,
                tcpVars >>
\* what a step of a write on a connection leaves as it is
offWrites == << relayVars, pipeVars, authVars, frameVars, lockVars, codecVars, tierVars,
                entryVars,
                devVars,
                tcpVars >>
\* what a step of the tier on its container streams leaves as it is
offTier == << bridgeVars, relayVars, authVars, frameVars, lockVars, codecVars, writeVars,
                entryVars,
                devVars,
                tcpVars >>
\* what a step of the write, write-then-read or resize entry leaves as it is
offEntries == << relayVars, pipeVars, authVars, frameVars, lockVars, codecVars, writeVars,
                tierVars,
                devVars,
                tcpVars >>
\* what a step of the local development proxy leaves as it is
offDev == << bridgeVars, relayVars, pipeVars, authVars, frameVars, lockVars, codecVars,
            writeVars, tierVars, entryVars,
                tcpVars >>
\* what a step of the TCP variant leaves as it is
offTcp == << bridgeVars, relayVars, pipeVars, authVars, frameVars, lockVars, codecVars,
            writeVars, tierVars, entryVars, devVars >>

\* connections that authenticate, and the public keys they may present
AuthConns == {"a1", "a2", "a3"}
PublicKeys == {"k1", "k2"}

Pollers == {"p1", "p2"}
Broadcasters == {"reader", "waiter"}
Procs == Reqs \cup Conns \cup Broadcasters \cup Pollers

\* the relay handler's goroutines: pinger, client-input forwarder, downstream
\* reader, resize forwarder
Duties == {"ping", "input", "wsr", "resize"}
RelayProcs == {"main"} \cup Duties

\* an exit message has been produced, on a push stream or in a buffered read
ExitProduced ==
    \/ \E c \in Conns : \E i \in 1..Len(sent[c]) : sent[c][i].type = "exit"
    \/ \E i \in 1..Len(readLog) :
          \E j \in 1..Len(readLog[i].msgs) : readLog[i].msgs[j].type = "exit"

BridgeInit ==
    /\ alive = TRUE
    /\ sessionOnce = "new"
    /\ session = "nil"
    /\ isRunning = FALSE
    /\ exitCode = 0
    /\ done = FALSE
    /\ winsize = <<0, 0>>
    /\ output = <<>>
    /\ clients = {}
    /\ pc = [p \in Procs |-> IF p \in Broadcasters THEN "off" ELSE "idle"]
    /\ geom = [p \in Reqs \cup Conns |-> <<0, 0>>]
    /\ btodo = [b \in Broadcasters |-> {}]
    /\ bmsg = [b \in Broadcasters |-> ErrorMsg("")]
    /\ rdflags = [p \in Pollers |->
                     [isRunning |-> FALSE, exitCode |-> 0, afterExit |-> FALSE]]
    /\ nTaken = 0
    /\ ptyIn = <<>>
    /\ sent = [c \in Conns |-> <<>>]
    /\ spawned = 0
    /\ sessionsMade = 0
    /\ winApplied = {}
    /\ nWsMsgs = [c \in Conns |-> 0]
    /\ nBcast = 0
    /\ attachedAt = [c \in Conns |-> 0]
    /\ chunks = << >>
    /\ span = [c \in Conns |-> [from |-> -1, to |-> -1]]
    /\ clientsAtExit = {}
    /\ exitAudience = {}
    /\ readLog = <<>>
    /\ statusLog = <<>>
    /\ nPolls = 0
    /\ sinceDrain = 0
    /\ overflowed = FALSE

----------------------------------------------------------------------------
(* OutputBuffer *)

\* the ceiling of the Output Buffer: 1024*1024 in the source, scaled down
BufCeiling == 4

\* (mutant) a Write that keeps the first BufCeiling bytes
BufferWriteKeepOldest(buf, data) ==
    LET all == buf \o data
    IN  IF Len(all) > BufCeiling THEN SubSeq(all, 1, BufCeiling) ELSE all

\* OutputBuffer.Write: append, then keep the last BufCeiling bytes
BufferWrite(buf, data) ==
    LET all == buf \o data
    IN  IF Len(all) > BufCeiling
        THEN SubSeq(all, Len(all) - BufCeiling + 1, Len(all))
        ELSE all

----------------------------------------------------------------------------
(* handleInit and the first part of handleWebSocket *)

\* handleInit: the body parses and its type is init
InitArrive(h, g) ==
    /\ alive /\ pc[h] = "idle"
    /\ pc' = [pc EXCEPT ![h] = "once"]
    /\ geom' = [geom EXCEPT ![h] = g]
    /\ UNCHANGED << alive, sessionOnce, session, isRunning, exitCode, done, winsize,
                    output, clients, btodo, bmsg, rdflags, nTaken, ptyIn, sent,
                    spawned, sessionsMade, winApplied, nWsMsgs, nBcast, attachedAt, chunks, span,
                    clientsAtExit, exitAudience, readLog, statusLog, nPolls, sinceDrain, overflowed,
                    offBridge >>

\* handleInit: the body does not parse, or its type is not init: sendError
InitReject(h) ==
    /\ alive /\ pc[h] = "idle"
    /\ pc' = [pc EXCEPT ![h] = "rejected"]
    /\ UNCHANGED << alive, sessionOnce, session, isRunning, exitCode, done, winsize,
                    output, clients, geom, btodo, bmsg, rdflags, nTaken, ptyIn, sent,
                    spawned, sessionsMade, winApplied, nWsMsgs, nBcast, attachedAt, chunks, span,
                    clientsAtExit, exitAudience, readLog, statusLog, nPolls, sinceDrain, overflowed,
                    offBridge >>

\* handleWebSocket: the upgrade succeeds; the handler waits for a first message
WsConnect(c) ==
    /\ alive /\ pc[c] = "idle"
    /\ pc' = [pc EXCEPT ![c] = "first"]
    /\ UNCHANGED << alive, sessionOnce, session, isRunning, exitCode, done, winsize,
                    output, clients, geom, btodo, bmsg, rdflags, nTaken, ptyIn, sent,
                    spawned, sessionsMade, winApplied, nWsMsgs, nBcast, attachedAt, chunks, span,
                    clientsAtExit, exitAudience, readLog, statusLog, nPolls, sinceDrain, overflowed,
                    offBridge >>

\* the first message is a well-formed init
WsFirstInit(c, g) ==
    /\ alive /\ pc[c] = "first"
    /\ pc' = [pc EXCEPT ![c] = "once"]
    /\ geom' = [geom EXCEPT ![c] = g]
    /\ UNCHANGED << alive, sessionOnce, session, isRunning, exitCode, done, winsize,
                    output, clients, btodo, bmsg, rdflags, nTaken, ptyIn, sent,
                    spawned, sessionsMade, winApplied, nWsMsgs, nBcast, attachedAt, chunks, span,
                    clientsAtExit, exitAudience, readLog, statusLog, nPolls, sinceDrain, overflowed,
                    offBridge >>

\* a handler that sends the error and goes on as if the message were an init
WsFirstBadGoesOn(c, text) ==
    /\ alive /\ pc[c] = "first"
    /\ pc' = [pc EXCEPT ![c] = "once"]
    /\ sent' = [sent EXCEPT ![c] = Append(@, ErrorMsg(text))]
    /\ UNCHANGED << alive, sessionOnce, session, isRunning, exitCode, done, winsize,
                    output, clients, geom, btodo, bmsg, rdflags, nTaken, ptyIn,
                    spawned, sessionsMade, winApplied, nWsMsgs, nBcast, attachedAt, chunks, span,
                    clientsAtExit, exitAudience, readLog, statusLog, nPolls, sinceDrain, overflowed,
                    offBridge >>

\* the first message does not parse or is not an init: sendWSError, close
WsFirstBad(c, text) ==
    /\ alive /\ pc[c] = "first"
    /\ pc' = [pc EXCEPT ![c] = "closed"]
    /\ sent' = [sent EXCEPT ![c] = Append(@, ErrorMsg(text))]
    /\ UNCHANGED << alive, sessionOnce, session, isRunning, exitCode, done, winsize,
                    output, clients, geom, btodo, bmsg, rdflags, nTaken, ptyIn,
                    spawned, sessionsMade, winApplied, nWsMsgs, nBcast, attachedAt, chunks, span,
                    clientsAtExit, exitAudience, readLog, statusLog, nPolls, sinceDrain, overflowed,
                    offBridge >>

\* sessionOnce.Do runs initializeSession and pty.StartWithSize succeeds: the
\* session object is made and the reader and the exit waiter start
InitializeSessionOk(p) ==
    /\ alive /\ pc[p] = "once" /\ sessionOnce = "new"
    /\ sessionOnce' = "done"
    /\ session' = "set"
    /\ sessionsMade' = sessionsMade + 1
    /\ spawned' = spawned + 1
    /\ isRunning' = TRUE
    /\ winsize' = geom[p]
    /\ pc' = [pc EXCEPT ![p] = "check", !["reader"] = "select", !["waiter"] = "wait"]
    /\ UNCHANGED << alive, exitCode, done, output, clients, geom, btodo, bmsg, rdflags,
                    nTaken, ptyIn, sent, winApplied, nWsMsgs, nBcast, attachedAt, chunks, span,
                    clientsAtExit, exitAudience, readLog, statusLog, nPolls, sinceDrain, overflowed,
                    offBridge >>

\* sessionOnce.Do runs initializeSession and pty.StartWithSize fails
InitializeSessionFail(p) ==
    /\ alive /\ pc[p] = "once" /\ sessionOnce = "new"
    /\ sessionOnce' = "done"
    /\ pc' = [pc EXCEPT ![p] = "initerr"]
    /\ UNCHANGED << alive, session, isRunning, exitCode, done, winsize, output, clients,
                    geom, btodo, bmsg, rdflags, nTaken, ptyIn, sent, spawned,
                    sessionsMade, winApplied, nWsMsgs, nBcast, attachedAt, chunks, span,
                    clientsAtExit, exitAudience, readLog, statusLog, nPolls, sinceDrain, overflowed,
                    offBridge >>

\* (mutant) a Do that runs initializeSession again
OncePassRespawn(p) ==
    /\ alive /\ pc[p] = "once" /\ sessionOnce = "done"
    /\ session' = "set"
    /\ sessionsMade' = sessionsMade + 1
    /\ spawned' = spawned + 1
    /\ isRunning' = TRUE
    /\ winsize' = geom[p]
    /\ pc' = [pc EXCEPT ![p] = "check"]
    /\ UNCHANGED << alive, sessionOnce, exitCode, done, output, clients, geom, btodo,
                    bmsg, rdflags, nTaken, ptyIn, sent, winApplied, nWsMsgs, nBcast,
                    attachedAt, chunks, span, clientsAtExit, exitAudience, readLog, statusLog, nPolls, sinceDrain, overflowed,
                    offBridge >>

\* sessionOnce.Do after the first call: the function is not run
OncePass(p) ==
    /\ alive /\ pc[p] = "once" /\ sessionOnce = "done"
    /\ pc' = [pc EXCEPT ![p] = "check"]
    /\ UNCHANGED << alive, sessionOnce, session, isRunning, exitCode, done, winsize,
                    output, clients, geom, btodo, bmsg, rdflags, nTaken, ptyIn, sent,
                    spawned, sessionsMade, winApplied, nWsMsgs, nBcast, attachedAt, chunks, span,
                    clientsAtExit, exitAudience, readLog, statusLog, nPolls, sinceDrain, overflowed,
                    offBridge >>

\* initErr != nil: sendError (HTTP) or sendWSError and close (push stream)
InitErrReply(p) ==
    /\ alive /\ pc[p] = "initerr"
    /\ pc' = [pc EXCEPT ![p] = IF p \in Conns THEN "closed" ELSE "failed"]
    /\ sent' = IF p \in Conns
               THEN [sent EXCEPT ![p] = Append(@, ErrorMsg("Failed to initialize session"))]
               ELSE sent
    /\ UNCHANGED << alive, sessionOnce, session, isRunning, exitCode, done, winsize,
                    output, clients, geom, btodo, bmsg, rdflags, nTaken, ptyIn,
                    spawned, sessionsMade, winApplied, nWsMsgs, nBcast, attachedAt, chunks, span,
                    clientsAtExit, exitAudience, readLog, statusLog, nPolls, sinceDrain, overflowed,
                    offBridge >>

\* if session != nil && session.isRunning
CheckRunning(p) ==
    /\ alive /\ pc[p] = "check"
    /\ pc' = [pc EXCEPT ![p] = IF session # "nil" /\ isRunning THEN "resize" ELSE "after"]
    /\ UNCHANGED << alive, sessionOnce, session, isRunning, exitCode, done, winsize,
                    output, clients, geom, btodo, bmsg, rdflags, nTaken, ptyIn, sent,
                    spawned, sessionsMade, winApplied, nWsMsgs, nBcast, attachedAt, chunks, span,
                    clientsAtExit, exitAudience, readLog, statusLog, nPolls, sinceDrain, overflowed,
                    offBridge >>

\* session.mu.Lock(); setWinsize(session.ptmx, cols, rows); session.mu.Unlock()
InitResize(p) ==
    /\ alive /\ pc[p] = "resize"
    /\ winsize' = geom[p]
    /\ winApplied' = winApplied \cup { <<p, geom[p]>> }
    /\ pc' = [pc EXCEPT ![p] = "after"]
    /\ UNCHANGED << alive, sessionOnce, session, isRunning, exitCode, done, output,
                    clients, geom, btodo, bmsg, rdflags, nTaken, ptyIn, sent, spawned,
                    sessionsMade, nWsMsgs, nBcast, attachedAt, chunks, span, clientsAtExit, exitAudience, readLog,
                    statusLog, nPolls, sinceDrain, overflowed, offBridge >>

\* handleInit replies with session.workDir: a nil session panics the handler
InitReply(h) ==
    /\ alive /\ h \in Reqs /\ pc[h] = "after"
    /\ pc' = [pc EXCEPT ![h] = IF session = "nil" THEN "panicked" ELSE "done"]
    /\ UNCHANGED << alive, sessionOnce, session, isRunning, exitCode, done, winsize,
                    output, clients, geom, btodo, bmsg, rdflags, nTaken, ptyIn, sent,
                    spawned, sessionsMade, winApplied, nWsMsgs, nBcast, attachedAt, chunks, span,
                    clientsAtExit, exitAudience, readLog, statusLog, nPolls, sinceDrain, overflowed,
                    offBridge >>


----------------------------------------------------------------------------
(* handleWebSocket after the init: attach, message loop, detach *)

\* some Broadcast call holds the read side of clientsMu
BroadcastInProgress == \E b \in Broadcasters : pc[b] = "writing"

\* session.AddClient(conn); defer session.RemoveClient(conn).  A nil session
\* panics the handler, and the deferred conn.Close() closes the stream.
AddClient(c) ==
    /\ alive /\ c \in Conns /\ pc[c] = "after"
    /\ IF session = "nil"
       THEN /\ pc' = [pc EXCEPT ![c] = "closed"]
            /\ UNCHANGED << clients, attachedAt, chunks, span >>
       ELSE /\ ~BroadcastInProgress
            /\ clients' = clients \cup {c}
            /\ attachedAt' = [attachedAt EXCEPT ![c] = nBcast]
            /\ span' = [span EXCEPT ![c].from = Len(chunks)]
            /\ chunks' = chunks
            /\ pc' = [pc EXCEPT ![c] = "hello"]
    /\ UNCHANGED << alive, sessionOnce, session, isRunning, exitCode, done, winsize,
                    output, geom, btodo, bmsg, rdflags, nTaken, ptyIn, sent, spawned,
                    sessionsMade, winApplied, nWsMsgs, nBcast, clientsAtExit, exitAudience, readLog,
                    statusLog, nPolls, sinceDrain, overflowed, offBridge >>

\* conn.WriteJSON(Message{Type: MsgPong, Message: "connected"})
WsHello(c) ==
    /\ alive /\ pc[c] = "hello"
    /\ sent' = [sent EXCEPT ![c] = Append(@, PongMsg("connected", 0))]
    /\ pc' = [pc EXCEPT ![c] = "loop"]
    /\ UNCHANGED << alive, sessionOnce, session, isRunning, exitCode, done, winsize,
                    output, clients, geom, btodo, bmsg, rdflags, nTaken, ptyIn, spawned,
                    sessionsMade, winApplied, nWsMsgs, nBcast, attachedAt, chunks, span,
                    clientsAtExit, exitAudience, readLog, statusLog, nPolls, sinceDrain, overflowed,
                    offBridge >>

\* session.ptmx.Write(data) of decoded data d: the bytes reach the terminal
\* while its process lives; afterwards the write fails
PtyWrite(in, d, live) == IF d.ok /\ live THEN in \o d.bytes ELSE in

\* case MsgData: decode, then session.ptmx.Write under session.mu; a payload
\* that does not decode is skipped
WsData(c, payload) ==
    /\ alive /\ pc[c] = "loop" /\ nWsMsgs[c] < MaxWsMsgs
    /\ nWsMsgs' = [nWsMsgs EXCEPT ![c] = @ + 1]
    /\ LET d == DecodeString(payload)
       IN  ptyIn' = PtyWrite(ptyIn, d, isRunning)
    /\ UNCHANGED << alive, sessionOnce, session, isRunning, exitCode, done, winsize,
                    output, clients, pc, geom, btodo, bmsg, rdflags, nTaken, sent,
                    spawned, sessionsMade, winApplied, nBcast, attachedAt, chunks, span,
                    clientsAtExit, exitAudience, readLog, statusLog, nPolls, sinceDrain, overflowed,
                    offBridge >>

\* case MsgResize: setWinsize under session.mu
WsResize(c, g) ==
    /\ alive /\ pc[c] = "loop" /\ nWsMsgs[c] < MaxWsMsgs
    /\ nWsMsgs' = [nWsMsgs EXCEPT ![c] = @ + 1]
    /\ winsize' = g
    /\ UNCHANGED << alive, sessionOnce, session, isRunning, exitCode, done, output,
                    clients, pc, geom, btodo, bmsg, rdflags, nTaken, ptyIn, sent,
                    spawned, sessionsMade, winApplied, nBcast, attachedAt, chunks, span,
                    clientsAtExit, exitAudience, readLog, statusLog, nPolls, sinceDrain, overflowed,
                    offBridge >>

\* case MsgPing: conn.WriteJSON(Message{Type: MsgPong, Timestamp: msg.Timestamp})
WsPing(c, ts) ==
    /\ alive /\ pc[c] = "loop" /\ nWsMsgs[c] < MaxWsMsgs
    /\ nWsMsgs' = [nWsMsgs EXCEPT ![c] = @ + 1]
    /\ sent' = [sent EXCEPT ![c] = Append(@, PongMsg("", ts))]
    /\ UNCHANGED << alive, sessionOnce, session, isRunning, exitCode, done, winsize,
                    output, clients, pc, geom, btodo, bmsg, rdflags, nTaken, ptyIn,
                    spawned, sessionsMade, winApplied, nBcast, attachedAt, chunks, span,
                    clientsAtExit, exitAudience, readLog, statusLog, nPolls, sinceDrain, overflowed,
                    offBridge >>

\* conn.ReadMessage fails in the loop (or before the init): the handler returns
WsReadErr(c) ==
    /\ alive /\ pc[c] \in {"first", "loop"}
    /\ pc' = [pc EXCEPT ![c] = IF pc[c] = "loop" THEN "removing" ELSE "closed"]
    /\ UNCHANGED << alive, sessionOnce, session, isRunning, exitCode, done, winsize,
                    output, clients, geom, btodo, bmsg, rdflags, nTaken, ptyIn, sent,
                    spawned, sessionsMade, winApplied, nWsMsgs, nBcast, attachedAt, chunks, span,
                    clientsAtExit, exitAudience, readLog, statusLog, nPolls, sinceDrain, overflowed,
                    offBridge >>

\* (mutant) the detaching handler empties the Client Set
RemoveClientAll(c) ==
    /\ alive /\ pc[c] = "removing"
    /\ ~BroadcastInProgress
    /\ clients' = {}
    /\ span' = [span EXCEPT ![c].to = Len(chunks)]
    /\ pc' = [pc EXCEPT ![c] = "closed"]
    /\ UNCHANGED << alive, sessionOnce, session, isRunning, exitCode, done, winsize,
                    output, geom, btodo, bmsg, rdflags, nTaken, ptyIn, sent, spawned,
                    sessionsMade, winApplied, nWsMsgs, nBcast, attachedAt, chunks,
                    clientsAtExit, exitAudience, readLog, statusLog, nPolls, sinceDrain, overflowed,
                    offBridge >>

\* the deferred session.RemoveClient(conn), then conn.Close()
RemoveClient(c) ==
    /\ alive /\ pc[c] = "removing"
    /\ ~BroadcastInProgress
    /\ clients' = clients \ {c}
    /\ span' = [span EXCEPT ![c].to = Len(chunks)]
    /\ pc' = [pc EXCEPT ![c] = "closed"]
    /\ UNCHANGED << alive, sessionOnce, session, isRunning, exitCode, done, winsize,
                    output, geom, btodo, bmsg, rdflags, nTaken, ptyIn, sent, spawned,
                    sessionsMade, winApplied, nWsMsgs, nBcast, attachedAt, chunks,
                    clientsAtExit, exitAudience, readLog, statusLog, nPolls, sinceDrain, overflowed,
                    offBridge >>

----------------------------------------------------------------------------
(* readPTYOutput, the exit waiter of initializeSession, Broadcast *)

\* the chunk sizes ptmx.Read returns (at most 32*1024 in the source)
MaxChunk == 2

\* the bytes the terminal process produces in SpecBuffer
MaxBufOut == 6

\* select: case <-session.done returns, default goes on to ptmx.Read
ReaderSelect ==
    /\ alive /\ pc["reader"] = "select"
    /\ pc' = [pc EXCEPT !["reader"] = IF done THEN "stopped" ELSE "reading"]
    /\ UNCHANGED << alive, sessionOnce, session, isRunning, exitCode, done, winsize,
                    output, clients, geom, btodo, bmsg, rdflags, nTaken, ptyIn, sent,
                    spawned, sessionsMade, winApplied, nWsMsgs, nBcast, attachedAt, chunks, span,
                    clientsAtExit, exitAudience, readLog, statusLog, nPolls, sinceDrain, overflowed,
                    offBridge >>

\* ptmx.Read returns n > 0 bytes: session.output.Write(data), and the data
\* message for Broadcast is built
ReaderTake(n, cap) ==
    /\ alive /\ pc["reader"] = "reading"
    /\ nTaken + n <= cap
    /\ LET data == StreamBytes(nTaken + 1, nTaken + n)
       IN  /\ output' = BufferWrite(output, data)
           /\ bmsg' = [bmsg EXCEPT !["reader"] = DataMsg(data)]
           /\ chunks' = Append(chunks, [msg |-> DataMsg(data), locked |-> FALSE, members |-> {}])
    /\ nTaken' = nTaken + n
    /\ sinceDrain' = sinceDrain + n
    /\ overflowed' = (overflowed \/ Len(output) + n > BufCeiling)
    /\ pc' = [pc EXCEPT !["reader"] = "bcast"]
    /\ UNCHANGED << alive, sessionOnce, session, isRunning, exitCode, done, winsize,
                    clients, geom, btodo, rdflags, ptyIn, sent, spawned, sessionsMade,
                    winApplied, nWsMsgs, nBcast, attachedAt, span, clientsAtExit,
                    exitAudience, readLog, statusLog, nPolls, offBridge >>

\* ptmx.Read fails (the process is gone): the reader returns
ReaderErr ==
    /\ alive /\ pc["reader"] = "reading" /\ ~isRunning
    /\ pc' = [pc EXCEPT !["reader"] = "stopped"]
    /\ UNCHANGED << alive, sessionOnce, session, isRunning, exitCode, done, winsize,
                    output, clients, geom, btodo, bmsg, rdflags, nTaken, ptyIn, sent,
                    spawned, sessionsMade, winApplied, nWsMsgs, nBcast, attachedAt, chunks, span,
                    clientsAtExit, exitAudience, readLog, statusLog, nPolls, sinceDrain, overflowed,
                    offBridge >>

\* cmd.Wait() returns with the exit code: isRunning and exitCode are set
\* under session.mu, then session.done is closed
WaiterExit(code) ==
    /\ alive /\ pc["waiter"] = "wait"
    /\ isRunning' = FALSE
    /\ exitCode' = code
    /\ done' = TRUE
    /\ clientsAtExit' = clients
    /\ bmsg' = [bmsg EXCEPT !["waiter"] = ExitMsg(code)]
    /\ pc' = [pc EXCEPT !["waiter"] = "bcast"]
    /\ UNCHANGED << alive, sessionOnce, session, winsize, output, clients, geom, btodo,
                    rdflags, nTaken, ptyIn, sent, spawned, sessionsMade, winApplied,
                    nWsMsgs, nBcast, attachedAt, chunks, span, exitAudience, readLog, statusLog,
                    nPolls, sinceDrain, overflowed, offBridge >>

\* Broadcast: s.clientsMu.RLock().  A read lock: it excludes AddClient and
\* RemoveClient, not another Broadcast.
BroadcastLock(b) ==
    /\ alive /\ pc[b] = "bcast"
    /\ btodo' = [btodo EXCEPT ![b] = clients]
    /\ nBcast' = nBcast + 1
    /\ pc' = [pc EXCEPT ![b] = "writing"]
    /\ exitAudience' = IF b = "waiter" THEN clients ELSE exitAudience
    /\ chunks' = IF b = "reader"
                 THEN [chunks EXCEPT ![Len(chunks)] = [@ EXCEPT !.locked = TRUE, !.members = clients]]
                 ELSE chunks
    /\ UNCHANGED << alive, sessionOnce, session, isRunning, exitCode, done, winsize,
                    output, clients, geom, bmsg, rdflags, nTaken, ptyIn, sent, spawned,
                    sessionsMade, winApplied, nWsMsgs, attachedAt, span, clientsAtExit,
                    readLog, statusLog, nPolls, sinceDrain, overflowed, offBridge >>

\* (mutant) a turn of the range that writes nothing
BroadcastWriteDrops(b, c) ==
    /\ alive /\ pc[b] = "writing" /\ c \in btodo[b]
    /\ btodo' = [btodo EXCEPT ![b] = @ \ {c}]
    /\ UNCHANGED << alive, sessionOnce, session, isRunning, exitCode, done, winsize,
                    output, clients, pc, geom, bmsg, rdflags, nTaken, ptyIn, sent, spawned,
                    sessionsMade, winApplied, nWsMsgs, nBcast, attachedAt, chunks, span,
                    clientsAtExit, exitAudience, readLog, statusLog, nPolls, sinceDrain, overflowed,
                    offBridge >>

\* one turn of "for client := range s.clients": client.WriteMessage(data);
\* the order of a map range is not fixed
BroadcastWrite(b, c) ==
    /\ alive /\ pc[b] = "writing" /\ c \in btodo[b]
    /\ sent' = [sent EXCEPT ![c] = Append(@, bmsg[b])]
    /\ btodo' = [btodo EXCEPT ![b] = @ \ {c}]
    /\ UNCHANGED << alive, sessionOnce, session, isRunning, exitCode, done, winsize,
                    output, clients, pc, geom, bmsg, rdflags, nTaken, ptyIn, spawned,
                    sessionsMade, winApplied, nWsMsgs, nBcast, attachedAt, chunks, span,
                    clientsAtExit, exitAudience, readLog, statusLog, nPolls, sinceDrain, overflowed,
                    offBridge >>

\* the range is over: s.clientsMu.RUnlock().  The reader loops; the waiter
\* goes on to time.Sleep(500 * time.Millisecond)
BroadcastUnlock(b) ==
    /\ alive /\ pc[b] = "writing" /\ btodo[b] = {}
    /\ pc' = [pc EXCEPT ![b] = IF b = "reader" THEN "select" ELSE "sleep"]
    /\ UNCHANGED << alive, sessionOnce, session, isRunning, exitCode, done, winsize,
                    output, clients, geom, btodo, bmsg, rdflags, nTaken, ptyIn, sent,
                    spawned, sessionsMade, winApplied, nWsMsgs, nBcast, attachedAt, chunks, span,
                    clientsAtExit, exitAudience, readLog, statusLog, nPolls, sinceDrain, overflowed,
                    offBridge >>

\* os.Exit(exitCode): the bridge process ends, with every goroutine in it
OsExit ==
    /\ alive /\ pc["waiter"] = "sleep"
    /\ alive' = FALSE
    /\ pc' = [pc EXCEPT !["waiter"] = "exited"]
    /\ UNCHANGED << sessionOnce, session, isRunning, exitCode, done, winsize,
                    output, clients, geom, btodo, bmsg, rdflags, nTaken, ptyIn, sent,
                    spawned, sessionsMade, winApplied, nWsMsgs, nBcast, attachedAt, chunks, span,
                    clientsAtExit, exitAudience, readLog, statusLog, nPolls,
                    sinceDrain, overflowed, offBridge >>

----------------------------------------------------------------------------
(* handleRead, handleWriteRead, handleWrite, handleResize, handleStatus *)

\* byte strings a client writes, and the data payloads that carry them (the
\* last one is not valid base64)
InBytes == { <<3>>, <<97, 255>> }
InPayloads == { EncodeToString(b) : b \in InBytes } \cup { <<1, 2>> }

\* the messages of a buffered read's reply: the drained data if any, then an
\* exit message if the process had ended
ReadReply(data, running, code) ==
    (IF Len(data) > 0 THEN << DataMsg(data) >> ELSE << >>)
    \o (IF ~running THEN << ExitMsg(code) >> ELSE << >>)

\* handleRead up to the flags: a nil session is answered with an error;
\* otherwise isRunning and exitCode are read under session.mu.RLock
ReadBegin(p) ==
    /\ alive /\ pc[p] = "idle" /\ nPolls < MaxPolls
    /\ nPolls' = nPolls + 1
    /\ IF session = "nil"
       THEN /\ readLog' = Append(readLog,
                   [kind |-> "read", msgs |-> << ErrorMsg("Session not initialized") >>,
                    afterExit |-> FALSE, served |-> TRUE])
            /\ UNCHANGED << pc, rdflags >>
       ELSE /\ rdflags' = [rdflags EXCEPT ![p] =
                   [isRunning |-> isRunning, exitCode |-> exitCode, afterExit |-> done]]
            /\ pc' = [pc EXCEPT ![p] = "drain"]
            /\ UNCHANGED readLog
    /\ UNCHANGED << alive, sessionOnce, session, isRunning, exitCode, done, winsize,
                    output, clients, geom, btodo, bmsg, nTaken, ptyIn, sent, spawned,
                    sessionsMade, winApplied, nWsMsgs, nBcast, attachedAt, chunks, span,
                    clientsAtExit, exitAudience, statusLog, sinceDrain, overflowed,
                    offBridge >>

\* (mutant) a Read that hands everything out and keeps the last byte
BufferReadLeavesLast(buf) ==
    [data |-> buf, rest |-> IF buf = << >> THEN << >> ELSE << buf[Len(buf)] >>]

\* (mutant) a Read that hands the data out and forgets to reset the buffer
BufferReadKeep(buf) == [data |-> buf, rest |-> buf]

\* OutputBuffer.Read: the whole content is handed out and the buffer is reset
BufferRead(buf) == [data |-> buf, rest |-> << >>]

\* data := session.output.Read(), and the reply is written
ReadDrain(p) ==
    /\ alive /\ pc[p] \in {"drain", "wrdrain"}
    /\ LET r == BufferRead(output)
       IN  /\ output' = r.rest
           /\ readLog' = Append(readLog,
                  [kind |-> IF pc[p] = "drain" THEN "read" ELSE "writeread",
                   msgs |-> ReadReply(r.data, rdflags[p].isRunning, rdflags[p].exitCode),
                   afterExit |-> rdflags[p].afterExit, served |-> TRUE])
    /\ sinceDrain' = 0
    /\ pc' = [pc EXCEPT ![p] = "idle"]
    /\ UNCHANGED << alive, sessionOnce, session, isRunning, exitCode, done, winsize,
                    clients, geom, btodo, bmsg, rdflags, nTaken, ptyIn, sent, spawned,
                    sessionsMade, winApplied, nWsMsgs, nBcast, attachedAt, chunks, span,
                    clientsAtExit, exitAudience, statusLog, nPolls, overflowed, offBridge >>

\* a buffered read sent after os.Exit: nobody serves it
ReadRefused(p) ==
    /\ ~alive /\ pc[p] = "idle" /\ nPolls < MaxPolls
    /\ nPolls' = nPolls + 1
    /\ readLog' = Append(readLog,
           [kind |-> "read", msgs |-> << >>, afterExit |-> TRUE, served |-> FALSE])
    /\ UNCHANGED << alive, sessionOnce, session, isRunning, exitCode, done, winsize,
                    output, clients, pc, geom, btodo, bmsg, rdflags, nTaken, ptyIn,
                    sent, spawned, sessionsMade, winApplied, nWsMsgs, nBcast,
                    attachedAt, chunks, span, clientsAtExit, exitAudience, statusLog, sinceDrain, overflowed,
                    offBridge >>

\* handleWriteRead up to the write: "session == nil || !session.isRunning" is
\* answered with an error, as is a payload that does not decode; otherwise
\* the bytes are written under session.mu
WriteReadData(p, payload) ==
    /\ alive /\ pc[p] = "idle" /\ nPolls < MaxPolls
    /\ nPolls' = nPolls + 1
    /\ LET d == DecodeString(payload)
       IN  IF session = "nil" \/ ~isRunning \/ ~d.ok
           THEN /\ readLog' = Append(readLog,
                       [kind |-> "writeread", msgs |-> << ErrorMsg("write refused") >>,
                        afterExit |-> done, served |-> TRUE])
                /\ UNCHANGED << pc, ptyIn >>
           ELSE /\ ptyIn' = PtyWrite(ptyIn, d, isRunning)
                /\ pc' = [pc EXCEPT ![p] = "flags"]
                /\ UNCHANGED readLog
    /\ UNCHANGED << alive, sessionOnce, session, isRunning, exitCode, done, winsize,
                    output, clients, geom, btodo, bmsg, rdflags, nTaken, sent, spawned,
                    sessionsMade, winApplied, nWsMsgs, nBcast, attachedAt, chunks, span,
                    clientsAtExit, exitAudience, statusLog, sinceDrain, overflowed,
                    offBridge >>

\* handleWriteRead after the write: isRunning and exitCode under RLock
WriteReadFlags(p) ==
    /\ alive /\ pc[p] = "flags"
    /\ rdflags' = [rdflags EXCEPT ![p] =
           [isRunning |-> isRunning, exitCode |-> exitCode, afterExit |-> done]]
    /\ pc' = [pc EXCEPT ![p] = "wrdrain"]
    /\ UNCHANGED << alive, sessionOnce, session, isRunning, exitCode, done, winsize,
                    output, clients, geom, btodo, bmsg, nTaken, ptyIn, sent, spawned,
                    sessionsMade, winApplied, nWsMsgs, nBcast, attachedAt, chunks, span,
                    clientsAtExit, exitAudience, readLog, statusLog, nPolls,
                    sinceDrain, overflowed, offBridge >>

\* handleWrite with a data message
HandleWriteData(payload) ==
    /\ alive /\ nPolls < MaxPolls
    /\ nPolls' = nPolls + 1
    /\ LET d == DecodeString(payload)
       IN  ptyIn' = IF session = "nil" \/ ~isRunning THEN ptyIn
                    ELSE PtyWrite(ptyIn, d, isRunning)
    /\ UNCHANGED << alive, sessionOnce, session, isRunning, exitCode, done, winsize,
                    output, clients, pc, geom, btodo, bmsg, rdflags, nTaken, sent,
                    spawned, sessionsMade, winApplied, nWsMsgs, nBcast, attachedAt, chunks, span,
                    clientsAtExit, exitAudience, readLog, statusLog, sinceDrain, overflowed,
                    offBridge >>

\* handleResize, and handleWrite with a resize message
HandleResize(g) ==
    /\ alive /\ nPolls < MaxPolls
    /\ nPolls' = nPolls + 1
    /\ winsize' = IF session = "nil" \/ ~isRunning THEN winsize ELSE g
    /\ UNCHANGED << alive, sessionOnce, session, isRunning, exitCode, done, output,
                    clients, pc, geom, btodo, bmsg, rdflags, nTaken, ptyIn, sent,
                    spawned, sessionsMade, winApplied, nWsMsgs, nBcast, attachedAt, chunks, span,
                    clientsAtExit, exitAudience, readLog, statusLog, sinceDrain, overflowed,
                    offBridge >>

\* handleStatus: the flags are read under session.mu.RLock
HandleStatus ==
    /\ alive /\ nPolls < MaxPolls
    /\ nPolls' = nPolls + 1
    /\ statusLog' = Append(statusLog,
           [initialized |-> session # "nil",
            running |-> IF session = "nil" THEN FALSE ELSE isRunning,
            exitCode |-> IF session = "nil" THEN 0 ELSE exitCode,
            exitSeen |-> ExitProduced, served |-> TRUE])
    /\ UNCHANGED << alive, sessionOnce, session, isRunning, exitCode, done, winsize,
                    output, clients, pc, geom, btodo, bmsg, rdflags, nTaken, ptyIn,
                    sent, spawned, sessionsMade, winApplied, nWsMsgs, nBcast,
                    attachedAt, chunks, span, clientsAtExit, exitAudience, readLog, sinceDrain, overflowed,
                    offBridge >>

\* a status query sent after os.Exit: nobody serves it
StatusRefused ==
    /\ ~alive /\ nPolls < MaxPolls
    /\ nPolls' = nPolls + 1
    /\ statusLog' = Append(statusLog,
           [initialized |-> FALSE, running |-> FALSE, exitCode |-> 0,
            exitSeen |-> ExitProduced, served |-> FALSE])
    /\ UNCHANGED << alive, sessionOnce, session, isRunning, exitCode, done, winsize,
                    output, clients, pc, geom, btodo, bmsg, rdflags, nTaken, ptyIn,
                    sent, spawned, sessionsMade, winApplied, nWsMsgs, nBcast,
                    attachedAt, chunks, span, clientsAtExit, exitAudience, readLog, sinceDrain, overflowed,
                    offBridge >>

----------------------------------------------------------------------------
(* Spec: the bridge from its start: two HTTP inits and one push stream race  *)
(* for the terminal process, the stream attaches, resizes and detaches, the *)
(* process exits.  The output reader is left to SpecStream and SpecPoll.    *)

\* the relay handler has not been entered
RelayIdle ==
    /\ rpc = [g \in RelayProcs |-> "off"]
    /\ fingerprint = ""
    /\ isPty = FALSE
    /\ rdone = FALSE
    /\ endCause = [g \in Duties |-> ""]
    /\ sshExit = -1
    /\ toClient = << >>
    /\ wsOut = << >>
    /\ wsIn = << >>
    /\ peerClosed = FALSE
    /\ connClosed = FALSE
    /\ sshIn = << >>
    /\ clientEOF = FALSE
    /\ winCh = << >>
    /\ exitRecv = -1
    /\ nKeys = 0
    /\ nDown = 0
    /\ nTicks = 0
    /\ nWin = 0
    /\ dial = "none"
    /\ nClose = 0
    /\ nExit = 0

\* nothing is under way between the client and the terminal
PipeIdle ==
    /\ typed = << >>
    /\ upQ = << >>
    /\ containerWsReady = FALSE
    /\ cwsUp = << >>
    /\ cwsDown = << >>
    /\ flight = {}
    /\ replies = {}
    /\ toRelay = << >>
    /\ nReq = 0
    /\ nRelayPings = 0

\* no connection has authenticated and the table is empty
AuthIdle ==
    /\ keys = {}
    /\ keys0 = {}
    /\ autoRegister = FALSE
    /\ apc = [c \in AuthConns |-> "new"]
    /\ akey = [c \in AuthConns |-> "k1"]
    /\ aexists = [c \in AuthConns |-> FALSE]
    /\ aresult = [c \in AuthConns |-> ""]
    /\ acause = [c \in AuthConns |-> ""]
    /\ ctxValue = [c \in AuthConns |-> ""]
    /\ nRegs = [c \in AuthConns |-> 0]
    /\ mutatedBy = {}
    /\ aclock = 1

\* no frame has been received
FramesIdle ==
    /\ wsLog = [c \in Conns |-> << >>]
    /\ httpLog = << >>

\* the handlers that take session.mu: the five entries that write to or
\* resize the terminal, one that reads the flags, and the exit waiter
Entries == {"stream", "write", "writeread", "resize", "init"}
FlagReaders == {"status"}
LockProcs == Entries \cup FlagReaders \cup {"exitwaiter"}

\* nobody is near session.mu
LockIdle ==
    /\ mu = ""
    /\ muReaders = {}
    /\ lpc = [e \in LockProcs |-> "idle"]
    /\ lop = [e \in LockProcs |-> ""]
    /\ inPty = {}
    /\ nOps = [e \in LockProcs |-> 0]

\* the codec has no input
NoCall == [fn |-> "none"]
NoMsg == [type |-> "none"]
NoWire == [w \in {} |-> 0]
CodecIdle ==
    /\ cpc = "idle"
    /\ cbytes = << >>
    /\ ccall = NoCall
    /\ cmsg = NoMsg
    /\ cwire = NoWire
    /\ cparsed = NoMsg
    /\ cdecoded = [ok |-> TRUE, bytes |-> << >>]

\* no write is under way
WritesIdle == inWrite = {}

\* the callers of connectContainerWebSocket: the startup task of each of two
\* client connections, and the handler of an init message
Startups == {"startup1", "startup2"}
InitHandlers == {"init1"}
Callers == Startups \cup InitHandlers

\* the tier has no container stream and no call is under way
TierIdle ==
    /\ containerWs = "null"
    /\ wsState = [s \in Callers |-> "unused"]
    /\ tcall = [t \in Callers |-> "idle"]
    /\ squeue = [s \in Callers |-> << >>]
    /\ forwarded = << >>
    /\ nChunks = 0

\* the HTTP entries that change the terminal: handleWrite, handleWriteRead,
\* handleResize
HttpEntries == {"write", "writeread", "resize"}

EntryIdle ==
    /\ epc = [e \in HttpEntries |-> "idle"]
    /\ ereq = [e \in HttpEntries |-> << >>]
    /\ elog = << >>

\* the goroutines of the local proxy's handler
DevProcs == {"main", "poller", "reader"}

\* no client has connected to the local proxy
DevIdle ==
    /\ dalive = TRUE
    /\ dpc = [p \in DevProcs |-> "idle"]
    /\ ddone = FALSE
    /\ dcloses = 0
    /\ dpeer = "open"
    /\ dlines = << >>
    /\ dsent = << >>
    /\ dposted = << >>
    /\ dnReads = 0
    /\ dnMsgs = 0

\* the goroutines of one connection of the TCP variant
TcpProcs == {"main", "output", "input"}

\* a connection has been accepted and nothing was read from it
TcpIdle ==
    /\ tcpAlive = TRUE
    /\ tcpPc = [p \in TcpProcs |-> "idle"]
    /\ tcpDone = FALSE
    /\ tcpCloses = 0
    /\ tcpRunning = FALSE
    /\ tcpCode = 0
    /\ tcpPeer = "open"
    /\ tcpSent = << >>
    /\ tcpPtyIn = << >>
    /\ tcpWinsize = << 0, 0 >>
    /\ tcpLines = 0
    /\ tcpOut = 0

\* nothing has happened outside the three processes
ExtraIdle == FramesIdle /\ LockIdle /\ CodecIdle /\ WritesIdle /\ TierIdle
             /\ TcpIdle
             /\ DevIdle
             /\ EntryIdle

Init == BridgeInit /\ RelayIdle /\ PipeIdle /\ AuthIdle /\ ExtraIdle

Next ==
    \/ \E h \in Reqs, g \in Geoms : InitArrive(h, g)
    \/ \E h \in Reqs : InitReject(h)
    \/ WsConnect("w1")
    \/ \E g \in Geoms : WsFirstInit("w1", g)
    \/ WsFirstBad("w1", "Expected init message")
    \/ \E p \in Reqs \cup Conns : InitializeSessionOk(p)
    \/ \E p \in Reqs \cup Conns : InitializeSessionFail(p)
    \/ \E p \in Reqs \cup Conns : OncePass(p)
    \/ \E p \in Reqs \cup Conns : InitErrReply(p)
    \/ \E p \in Reqs \cup Conns : CheckRunning(p)
    \/ \E p \in Reqs \cup Conns : InitResize(p)
    \/ \E h \in Reqs : InitReply(h)
    \/ \E c \in Conns : AddClient(c)
    \/ \E c \in Conns : WsHello(c)
    \/ \E c \in Conns, g \in Geoms : WsResize(c, g)
    \/ \E c \in Conns : WsReadErr(c)
    \/ \E c \in Conns : RemoveClient(c)
    \/ \E code \in ExitCodes : WaiterExit(code)
    \/ \E b \in Broadcasters : BroadcastLock(b)
    \/ \E b \in Broadcasters, c \in Conns : BroadcastWrite(b, c)
    \/ \E b \in Broadcasters : BroadcastUnlock(b)
    \/ OsExit

Spec == Init /\ [][Next]_vars


(***************************************************************************)
(* C1.  Whatever the order of the init requests (HTTP init entry and       *)
(* push-stream init), the terminal process is started at most once and the *)
(* session object is made at most once; and every init request that has    *)
(* been served while the process runs has had its own geometry applied to  *)
(* the pseudo-terminal by setWinsize.                                      *)
(***************************************************************************)
InitServed(p) == pc[p] \in {"done", "hello", "loop", "removing"}

C1_SpawnOnceInitResizes ==
    /\ spawned <= 1
    /\ sessionsMade <= 1
    /\ \A p \in Reqs \cup Conns :
          (InitServed(p) /\ isRunning) => <<p, geom[p]>> \in winApplied

\* three inits served on one running process, two of them with different
\* geometries, and one process
C1_Witness ==
    /\ InitServed("h1") /\ InitServed("h2") /\ InitServed("w1")
    /\ isRunning /\ spawned = 1
    /\ geom["h1"] # geom["h2"]
    /\ winsize = geom["w1"] /\ winsize # geom["h2"]


----------------------------------------------------------------------------
(* SpecStream: a running terminal process (one HTTP init has been served), *)
(* two push streams that attach and detach, the output reader and the exit *)
(* waiter broadcasting to them.  The streams send nothing after their init *)
(* and the reader takes one byte at a time.                                *)

\* the state handleInit leaves: sessionOnce used, the process running, the
\* reader and the waiter started
RunningInit ==
    /\ alive = TRUE
    /\ sessionOnce = "done"
    /\ session = "set"
    /\ isRunning = TRUE
    /\ exitCode = 0
    /\ done = FALSE
    /\ winsize = <<80, 24>>
    /\ output = <<>>
    /\ clients = {}
    /\ pc = [p \in Procs |-> IF p = "reader" THEN "select"
                             ELSE IF p = "waiter" THEN "wait"
                             ELSE IF p = "h1" THEN "done" ELSE "idle"]
    /\ geom = [p \in Reqs \cup Conns |-> IF p = "h1" THEN <<80, 24>> ELSE <<0, 0>>]
    /\ btodo = [b \in Broadcasters |-> {}]
    /\ bmsg = [b \in Broadcasters |-> ErrorMsg("")]
    /\ rdflags = [p \in Pollers |->
                     [isRunning |-> FALSE, exitCode |-> 0, afterExit |-> FALSE]]
    /\ nTaken = 0
    /\ ptyIn = <<>>
    /\ sent = [c \in Conns |-> <<>>]
    /\ spawned = 1
    /\ sessionsMade = 1
    /\ winApplied = { <<"h1", <<80, 24>>>> }
    /\ nWsMsgs = [c \in Conns |-> 0]
    /\ nBcast = 0
    /\ attachedAt = [c \in Conns |-> 0]
    /\ chunks = << >>
    /\ span = [c \in Conns |-> [from |-> -1, to |-> -1]]
    /\ clientsAtExit = {}
    /\ exitAudience = {}
    /\ readLog = <<>>
    /\ statusLog = <<>>
    /\ nPolls = 0
    /\ sinceDrain = 0
    /\ overflowed = FALSE

StreamNext ==
    \/ \E c \in Conns : WsConnect(c)
    \/ \E c \in Conns : WsFirstInit(c, <<120, 40>>)
    \/ \E c \in Conns : OncePass(c)
    \/ \E c \in Conns : CheckRunning(c)
    \/ \E c \in Conns : InitResize(c)
    \/ \E c \in Conns : AddClient(c)
    \/ \E c \in Conns : WsHello(c)
    \/ \E c \in Conns : WsReadErr(c)
    \/ \E c \in Conns : RemoveClient(c)
    \/ ReaderSelect
    \/ ReaderTake(1, MaxOut)
    \/ ReaderErr
    \/ \E code \in ExitCodes : WaiterExit(code)
    \/ \E b \in Broadcasters : BroadcastLock(b)
    \/ \E b \in Broadcasters, c \in Conns : BroadcastWrite(b, c)
    \/ \E b \in Broadcasters : BroadcastUnlock(b)
    \/ OsExit

StreamInit == RunningInit /\ RelayIdle /\ PipeIdle /\ AuthIdle /\ ExtraIdle

SpecStream == StreamInit /\ [][StreamNext]_vars

\* the data and exit messages written to a push stream, in order
Broadcasts(c) == SelectMsgs(sent[c], {"data", "exit"})
Exits(c) == SelectMsgs(sent[c], {"exit"})

(***************************************************************************)
(* C2.  Two push streams that were both attached while the process was     *)
(* running, and over the same Broadcast calls, have been written the same  *)
(* sequence of data and exit messages, whenever no Broadcast call is under *)
(* way.                                                                    *)
(***************************************************************************)
AttachedWhileRunning(c) == c \in clients /\ (isRunning \/ c \in clientsAtExit)

C2_SameSequence ==
    \A c1, c2 \in Conns :
        ( /\ AttachedWhileRunning(c1) /\ AttachedWhileRunning(c2)
          /\ attachedAt[c1] = attachedAt[c2]
          /\ ~BroadcastInProgress )
            => Broadcasts(c1) = Broadcasts(c2)

(***************************************************************************)
(* C3, as claimed.  Once the exit waiter has broadcast the exit with code  *)
(* c, every push stream that was in the Client Set when the process exited *)
(* has been written exactly one exit message, and it carries c.            *)
(***************************************************************************)
C3_ExitToClientsAtExit ==
    pc["waiter"] \in {"sleep", "exited"} =>
        \A c \in clientsAtExit : Len(Exits(c)) = 1 /\ Exits(c)[1].code = exitCode

(***************************************************************************)
(* C3, amended.  Once the exit waiter has broadcast the exit with code c,  *)
(* every push stream that was in the Client Set when that broadcast took   *)
(* the client-set lock has been written exactly one exit message, and it   *)
(* carries c; no stream is ever written more than one exit message, and a  *)
(* stream outside that set (one that detached between the exit and the     *)
(* broadcast) is written none.                                             *)
(***************************************************************************)
C3_ExitToClientsAtBroadcast ==
    /\ pc["waiter"] \in {"sleep", "exited"} =>
          \A c \in Conns :
              IF c \in exitAudience
              THEN Len(Exits(c)) = 1 /\ Exits(c)[1].code = exitCode
              ELSE Exits(c) = << >>
    /\ \A c \in Conns : Len(Exits(c)) <= 1

\* two streams attached, the process exits with code 2, both are written it
C3_Witness ==
    /\ pc["waiter"] = "sleep"
    /\ exitCode = 2
    /\ exitAudience = Conns
    /\ \A c \in Conns : Len(Exits(c)) = 1 /\ Exits(c)[1].code = 2


----------------------------------------------------------------------------
(* SpecPoll: a running terminal process with one push stream attached; the *)
(* output reader, the exit waiter, buffered reads and status queries, up   *)
(* to and past the bridge's os.Exit.                                       *)

AttachedInit ==
    /\ alive = TRUE
    /\ sessionOnce = "done"
    /\ session = "set"
    /\ isRunning = TRUE
    /\ exitCode = 0
    /\ done = FALSE
    /\ winsize = <<80, 24>>
    /\ output = <<>>
    /\ clients = {"w1"}
    /\ pc = [p \in Procs |-> IF p = "reader" THEN "select"
                             ELSE IF p = "waiter" THEN "wait"
                             ELSE IF p = "w1" THEN "loop" ELSE "idle"]
    /\ geom = [p \in Reqs \cup Conns |-> IF p = "w1" THEN <<80, 24>> ELSE <<0, 0>>]
    /\ btodo = [b \in Broadcasters |-> {}]
    /\ bmsg = [b \in Broadcasters |-> ErrorMsg("")]
    /\ rdflags = [p \in Pollers |->
                     [isRunning |-> FALSE, exitCode |-> 0, afterExit |-> FALSE]]
    /\ nTaken = 0
    /\ ptyIn = <<>>
    /\ sent = [c \in Conns |-> IF c = "w1" THEN << PongMsg("connected", 0) >> ELSE <<>>]
    /\ spawned = 1
    /\ sessionsMade = 1
    /\ winApplied = { <<"w1", <<80, 24>>>> }
    /\ nWsMsgs = [c \in Conns |-> 0]
    /\ nBcast = 0
    /\ attachedAt = [c \in Conns |-> 0]
    /\ chunks = << >>
    /\ span = [c \in Conns |-> [from |-> IF c = "w1" THEN 0 ELSE -1, to |-> -1]]
    /\ clientsAtExit = {}
    /\ exitAudience = {}
    /\ readLog = <<>>
    /\ statusLog = <<>>
    /\ nPolls = 0
    /\ sinceDrain = 0
    /\ overflowed = FALSE

PollNext ==
    \/ ReaderSelect
    \/ \E n \in 1..MaxChunk : ReaderTake(n, MaxOut)
    \/ ReaderErr
    \/ \E code \in ExitCodes : WaiterExit(code)
    \/ \E b \in Broadcasters : BroadcastLock(b)
    \/ \E b \in Broadcasters : BroadcastWrite(b, "w1")
    \/ \E b \in Broadcasters : BroadcastUnlock(b)
    \/ OsExit
    \/ WsReadErr("w1")
    \/ RemoveClient("w1")
    \/ ReadBegin("p1")
    \/ ReadDrain("p1")
    \/ ReadRefused("p1")
    \/ HandleStatus
    \/ StatusRefused

PollInit == AttachedInit /\ RelayIdle /\ PipeIdle /\ AuthIdle /\ ExtraIdle

SpecPoll == PollInit /\ [][PollNext]_vars

\* a reply ends with an exit message carrying code c, after data only
EndsWithExit(msgs, c) ==
    /\ Len(msgs) >= 1
    /\ msgs[Len(msgs)].type = "exit" /\ msgs[Len(msgs)].code = c
    /\ \A j \in 1..(Len(msgs) - 1) : msgs[j].type = "data"

\* every exit message produced so far, broadcast or polled
ProducedExits ==
    UNION { { sent[c][i] : i \in 1..Len(sent[c]) } : c \in Conns }
    \cup UNION { { readLog[i].msgs[j] : j \in 1..Len(readLog[i].msgs) } :
                    i \in 1..Len(readLog) }

(***************************************************************************)
(* C4, as claimed.  Every buffered read made after the process has exited  *)
(* with code c returns an exit message with code c after any drained data; *)
(* when an exit message has been produced the running flag is false; and   *)
(* every status query made after an exit message was produced reports      *)
(* running false with exit code c.                                         *)
(***************************************************************************)
C4_ReadAndStatusAfterExit ==
    /\ \A i \in 1..Len(readLog) :
          (readLog[i].kind = "read" /\ readLog[i].afterExit)
              => EndsWithExit(readLog[i].msgs, exitCode)
    /\ ExitProduced => ~isRunning
    /\ \A i \in 1..Len(statusLog) :
          statusLog[i].exitSeen
              => (statusLog[i].served /\ ~statusLog[i].running
                  /\ statusLog[i].exitCode = exitCode)

(***************************************************************************)
(* What holds of the requests the bridge does answer: a buffered read      *)
(* served after the exit with code c was recorded returns an exit message  *)
(* with code c after any drained data; every exit message produced carries *)
(* c and finds the running flag false; a status query served after an exit *)
(* message reports running false with c.  A request made after os.Exit     *)
(* gets no reply.                                                          *)
(***************************************************************************)
ServedReadAndStatusAfterExit ==
    /\ \A i \in 1..Len(readLog) :
          (readLog[i].kind = "read" /\ readLog[i].afterExit /\ readLog[i].served)
              => EndsWithExit(readLog[i].msgs, exitCode)
    /\ ExitProduced => ~isRunning
    /\ \A m \in ProducedExits : m.type = "exit" => m.code = exitCode
    /\ \A i \in 1..Len(statusLog) :
          (statusLog[i].exitSeen /\ statusLog[i].served)
              => (~statusLog[i].running /\ statusLog[i].exitCode = exitCode)
    /\ \A i \in 1..Len(readLog) : ~readLog[i].served => readLog[i].msgs = << >>

\* after an exit with code 2, a buffered read has returned data and then the
\* exit message, and a status query made after it has been answered
ServedAfterExitReached ==
    /\ exitCode = 2 /\ ~isRunning
    /\ \E i \in 1..Len(readLog) :
          /\ readLog[i].afterExit /\ readLog[i].served
          /\ Len(readLog[i].msgs) = 2
          /\ readLog[i].msgs[2].type = "exit"
    /\ \E i \in 1..Len(statusLog) : statusLog[i].exitSeen /\ statusLog[i].served


----------------------------------------------------------------------------
(* SpecBuffer: a running terminal process used by one polling client that  *)
(* makes its calls one after another (write, read, write-and-read), while  *)
(* the output reader fills the Output Buffer and the process may exit.     *)

BufferNext ==
    \/ ReaderSelect
    \/ \E n \in 1..MaxChunk : ReaderTake(n, MaxBufOut)
    \/ ReaderErr
    \/ \E code \in ExitCodes : WaiterExit(code)
    \/ \E b \in Broadcasters : BroadcastLock(b)
    \/ \E b \in Broadcasters : BroadcastUnlock(b)
    \/ OsExit
    \/ ReadBegin("p1")
    \/ ReadDrain("p1")
    \/ WriteReadData("p1", EncodeToString(<<97, 255>>))
    \/ WriteReadFlags("p1")
    \/ HandleWriteData(EncodeToString(<<3>>))

SpecBuffer == StreamInit /\ [][BufferNext]_vars

\* the bytes carried by the data messages of one reply
RECURSIVE PayloadBytes(_)
PayloadBytes(msgs) ==
    IF msgs = << >> THEN << >>
    ELSE (IF Head(msgs).type = "data" THEN DecodeString(Head(msgs).data).bytes
          ELSE << >>) \o PayloadBytes(Tail(msgs))

\* the bytes returned by the replies so far, in the order of the calls
RECURSIVE LogBytes(_)
LogBytes(log) ==
    IF log = << >> THEN << >> ELSE PayloadBytes(Head(log).msgs) \o LogBytes(Tail(log))

(***************************************************************************)
(* C5.  For calls made one after another, as long as the Output Buffer     *)
(* never went over its ceiling, the data payloads returned so far followed *)
(* by what is still buffered are exactly the bytes the output reader took  *)
(* from the pseudo-terminal, in order: once the buffer is drained the      *)
(* payloads alone are that byte stream.                                    *)
(***************************************************************************)
C5_ReadsReturnTheStream ==
    ~overflowed => LogBytes(readLog) \o output = StreamBytes(1, nTaken)

\* the whole stream was returned over at least two replies that carried
\* data, with a write made in between, and nothing was ever trimmed
C5_Witness ==
    /\ ~overflowed /\ nTaken = MaxBufOut /\ output = << >>
    /\ LogBytes(readLog) = StreamBytes(1, MaxBufOut)
    /\ \E i, j \in 1..Len(readLog) :
          /\ i < j
          /\ PayloadBytes(readLog[i].msgs) # << >>
          /\ PayloadBytes(readLog[j].msgs) # << >>
    /\ ptyIn # << >>

(***************************************************************************)
(* C6.  The Output Buffer never holds more than its ceiling, and it holds  *)
(* exactly the newest bytes appended since the last drain, as many as fit  *)
(* under the ceiling: what is dropped is the oldest.                       *)
(***************************************************************************)
C6_CeilingKeepsNewest ==
    /\ Len(output) <= BufCeiling
    /\ LET k == IF sinceDrain < BufCeiling THEN sinceDrain ELSE BufCeiling
       IN  output = StreamBytes(nTaken - k + 1, nTaken)

\* after a drain that returned data, more than the ceiling was appended and
\* the buffer is full
C6_Witness ==
    /\ sinceDrain > BufCeiling /\ Len(output) = BufCeiling
    /\ \E i \in 1..Len(readLog) : PayloadBytes(readLog[i].msgs) # << >>


----------------------------------------------------------------------------
(***************************************************************************)
(* The relay session handler.  WriteMessage on the safeConn is one step;   *)
(* it fails only once downstream has closed or reset the stream, and may   *)
(* still succeed then (the bytes go to a socket nobody reads).  The        *)
(* client's window is 80 x 24 and cfg.PingInterval is positive.            *)
(***************************************************************************)
\* chunks the client types, messages downstream sends, ticks, window changes
MaxKeys == 1
MaxDown == 2
MaxTicks == 1
MaxWin == 1

Fingerprints == {"", "SHA256:k1"}

\* proxy.Message
ProxyMessage(t, cols, rows, repo, data, code, timestamp, error) ==
    [type |-> t, cols |-> cols, rows |-> rows, repo |-> repo, data |-> data,
     code |-> code, timestamp |-> timestamp, error |-> error]

NewInitMessage(cols, rows, repo) == ProxyMessage("init", cols, rows, repo, << >>, 0, 0, "")
NewDataMessage(data) == ProxyMessage("data", 0, 0, "", data, 0, 0, "")
NewResizeMessage(cols, rows) == ProxyMessage("resize", cols, rows, "", << >>, 0, 0, "")
NewExitMessage(code) == ProxyMessage("exit", 0, 0, "", << >>, code, 0, "")
NewPingMessage(timestamp) == ProxyMessage("ping", 0, 0, "", << >>, 0, timestamp, "")

\* a frame on the wire: the JSON text of a message, or text that is no JSON
Marshal(msg) == [json |-> TRUE, fields |-> msg]
Malformed == [json |-> FALSE, fields |-> ProxyMessage("", 0, 0, "", << >>, 0, 0, "")]

\* proxy.ParseMessage: json.Unmarshal into a Message
ParseMessage(frame) ==
    IF frame.json THEN [err |-> FALSE, msg |-> frame.fields]
    ELSE [err |-> TRUE, msg |-> ProxyMessage("", 0, 0, "", << >>, 0, 0, "")]

\* what downstream may send
DownFrames ==
    { Marshal(NewDataMessage(EncodeToString(<<27, 91>>))),
      Marshal(NewDataMessage(<<1, 2>>)),
      Marshal(ProxyMessage("pong", 0, 0, "", << >>, 0, 1, "")),
      Marshal(ProxyMessage("error", 0, 0, "", << >>, 0, 0, "boom")),
      Malformed }
    \cup { Marshal(NewExitMessage(c)) : c \in ExitCodes }

\* something written to the SSH session: io.WriteString of a text (with its
\* %s argument) or s.Write of bytes
Written(text, arg, bytes) == [text |-> text, arg |-> arg, bytes |-> bytes]

\* a session reaches the handler
HandlerEnter(fp, pty) ==
    /\ rpc["main"] = "off"
    /\ fingerprint' = fp
    /\ isPty' = pty
    /\ rpc' = [rpc EXCEPT !["main"] = "auth"]
    /\ UNCHANGED << rdone, endCause, sshExit, toClient, wsOut, wsIn, peerClosed,
                    connClosed, sshIn, clientEOF, winCh, exitRecv, nKeys, nDown, nTicks,
                    nWin, dial, nClose, nExit, offRelay >>

\* fingerprint == "": "Authentication failed", s.Exit(1)
AuthCheck ==
    /\ rpc["main"] = "auth"
    /\ IF fingerprint = ""
       THEN /\ toClient' = Append(toClient, Written("Authentication failed\r\n", "", << >>))
            /\ sshExit' = 1 /\ nExit' = nExit + 1
            /\ rpc' = [rpc EXCEPT !["main"] = "exited"]
       ELSE /\ rpc' = [rpc EXCEPT !["main"] = "pty"]
            /\ UNCHANGED << toClient, sshExit, nExit >>
    /\ UNCHANGED << fingerprint, isPty, rdone, endCause, wsOut, wsIn, peerClosed,
                    connClosed, sshIn, clientEOF, winCh, exitRecv, nKeys, nDown, nTicks,
                    nWin, dial, nClose, offRelay >>

\* (mutant) the terminal is not asked for: the handler goes on to dial
PtyCheckDialsAnyway ==
    /\ rpc["main"] = "pty"
    /\ rpc' = [rpc EXCEPT !["main"] = "dial"]
    /\ UNCHANGED << fingerprint, isPty, rdone, endCause, toClient, sshExit, wsOut, wsIn,
                    peerClosed, connClosed, sshIn, clientEOF, winCh, exitRecv, nKeys,
                    nDown, nTicks, nWin, dial, nClose, nExit, offRelay >>

\* !isPty: "PTY required", s.Exit(1)
PtyCheck ==
    /\ rpc["main"] = "pty"
    /\ IF ~isPty
       THEN /\ toClient' = Append(toClient, Written("PTY required. Use: ssh -t ...\r\n", "", << >>))
            /\ sshExit' = 1 /\ nExit' = nExit + 1
            /\ rpc' = [rpc EXCEPT !["main"] = "exited"]
       ELSE /\ rpc' = [rpc EXCEPT !["main"] = "dial"]
            /\ UNCHANGED << toClient, sshExit, nExit >>
    /\ UNCHANGED << fingerprint, isPty, rdone, endCause, wsOut, wsIn, peerClosed,
                    connClosed, sshIn, clientEOF, winCh, exitRecv, nKeys, nDown, nTicks,
                    nWin, dial, nClose, offRelay >>

\* dialer.Dial succeeds
DialOk ==
    /\ rpc["main"] = "dial"
    /\ dial' = "ok"
    /\ rpc' = [rpc EXCEPT !["main"] = "init"]
    /\ UNCHANGED << fingerprint, isPty, rdone, endCause, sshExit, toClient, wsOut, wsIn,
                    peerClosed, connClosed, sshIn, clientEOF, winCh, exitRecv, nKeys,
                    nDown, nTicks, nWin, nClose, nExit, offRelay >>

\* dialer.Dial fails: "Failed to connect to backend", s.Exit(1)
DialFail ==
    /\ rpc["main"] = "dial"
    /\ dial' = "failed"
    /\ toClient' = Append(toClient, Written("Failed to connect to backend\r\n", "", << >>))
    /\ sshExit' = 1 /\ nExit' = nExit + 1
    /\ rpc' = [rpc EXCEPT !["main"] = "exited"]
    /\ UNCHANGED << fingerprint, isPty, rdone, endCause, wsOut, wsIn, peerClosed,
                    connClosed, sshIn, clientEOF, winCh, exitRecv, nKeys, nDown, nTicks,
                    nWin, nClose, offRelay >>

\* (mutant) the goroutines are started and the init message is not written
SendInitOkUnsent ==
    /\ rpc["main"] = "init"
    /\ rpc' = [g \in RelayProcs |->
                 IF g = "main" THEN "wait" ELSE IF g = "wsr" THEN "read" ELSE "select"]
    /\ UNCHANGED << fingerprint, isPty, rdone, endCause, sshExit, toClient, wsOut, wsIn,
                    peerClosed, connClosed, sshIn, clientEOF, winCh, exitRecv, nKeys,
                    nDown, nTicks, nWin, dial, nClose, nExit, offRelay >>

\* the init message is written and the four goroutines are started
SendInitOk ==
    /\ rpc["main"] = "init"
    /\ wsOut' = Append(wsOut, Marshal(NewInitMessage(80, 24, "")))
    /\ rpc' = [g \in RelayProcs |->
                 IF g = "main" THEN "wait" ELSE IF g = "wsr" THEN "read" ELSE "select"]
    /\ UNCHANGED << fingerprint, isPty, rdone, endCause, sshExit, toClient, wsIn,
                    peerClosed, connClosed, sshIn, clientEOF, winCh, exitRecv, nKeys,
                    nDown, nTicks, nWin, dial, nClose, nExit, offRelay >>

\* the init message cannot be written: "Failed to initialize session",
\* s.Exit(1), and the deferred conn.Close()
SendInitFail ==
    /\ rpc["main"] = "init" /\ peerClosed
    /\ toClient' = Append(toClient, Written("Failed to initialize session\r\n", "", << >>))
    /\ sshExit' = 1 /\ nExit' = nExit + 1
    /\ connClosed' = TRUE
    /\ rpc' = [rpc EXCEPT !["main"] = "exited"]
    /\ UNCHANGED << fingerprint, isPty, rdone, endCause, wsOut, wsIn, peerClosed, sshIn,
                    clientEOF, winCh, exitRecv, nKeys, nDown, nTicks, nWin, dial, nClose, offRelay >>

\* pinger: case <-done
PingDone ==
    /\ rpc["ping"] = "select" /\ rdone
    /\ rpc' = [rpc EXCEPT !["ping"] = "ended"]
    /\ endCause' = [endCause EXCEPT !["ping"] = "done"]
    /\ UNCHANGED << fingerprint, isPty, rdone, sshExit, toClient, wsOut, wsIn,
                    peerClosed, connClosed, sshIn, clientEOF, winCh, exitRecv, nKeys,
                    nDown, nTicks, nWin, dial, nClose, nExit, offRelay >>

\* pinger: case <-ticker.C, the ping is written or the write fails
PingTick(ok) ==
    /\ rpc["ping"] = "select" /\ nTicks < MaxTicks
    /\ ok \/ peerClosed
    /\ nTicks' = nTicks + 1
    /\ IF ok
       THEN /\ wsOut' = Append(wsOut, Marshal(NewPingMessage(nTicks + 1)))
            /\ UNCHANGED << rpc, endCause >>
       ELSE /\ rpc' = [rpc EXCEPT !["ping"] = "ended"]
            /\ endCause' = [endCause EXCEPT !["ping"] = "writeerr"]
            /\ UNCHANGED wsOut
    /\ UNCHANGED << fingerprint, isPty, rdone, sshExit, toClient, wsIn, peerClosed,
                    connClosed, sshIn, clientEOF, winCh, exitRecv, nKeys, nDown, nWin,
                    dial, nClose, nExit, offRelay >>

\* input forwarder: case <-done
InputDone ==
    /\ rpc["input"] = "select" /\ rdone
    /\ rpc' = [rpc EXCEPT !["input"] = "ended"]
    /\ endCause' = [endCause EXCEPT !["input"] = "done"]
    /\ UNCHANGED << fingerprint, isPty, rdone, sshExit, toClient, wsOut, wsIn,
                    peerClosed, connClosed, sshIn, clientEOF, winCh, exitRecv, nKeys,
                    nDown, nTicks, nWin, dial, nClose, nExit, offRelay >>

\* input forwarder: default, it enters s.Read
InputDefault ==
    /\ rpc["input"] = "select" /\ ~rdone
    /\ rpc' = [rpc EXCEPT !["input"] = "read"]
    /\ UNCHANGED << fingerprint, isPty, rdone, endCause, sshExit, toClient, wsOut, wsIn,
                    peerClosed, connClosed, sshIn, clientEOF, winCh, exitRecv, nKeys,
                    nDown, nTicks, nWin, dial, nClose, nExit, offRelay >>

\* input forwarder: s.Read returns a chunk, which is encoded and written
InputRead(ok) ==
    /\ rpc["input"] = "read" /\ sshIn # << >>
    /\ ok \/ peerClosed
    /\ sshIn' = Tail(sshIn)
    /\ IF ok
       THEN /\ wsOut' = Append(wsOut, Marshal(NewDataMessage(EncodeToString(Head(sshIn)))))
            /\ rpc' = [rpc EXCEPT !["input"] = "select"]
            /\ UNCHANGED endCause
       ELSE /\ rpc' = [rpc EXCEPT !["input"] = "ended"]
            /\ endCause' = [endCause EXCEPT !["input"] = "writeerr"]
            /\ UNCHANGED wsOut
    /\ UNCHANGED << fingerprint, isPty, rdone, sshExit, toClient, wsIn, peerClosed,
                    connClosed, clientEOF, winCh, exitRecv, nKeys, nDown, nTicks, nWin,
                    dial, nClose, nExit, offRelay >>

\* input forwarder: s.Read returns an error, the client has closed
InputEOF ==
    /\ rpc["input"] = "read" /\ sshIn = << >> /\ clientEOF
    /\ rpc' = [rpc EXCEPT !["input"] = "ended"]
    /\ endCause' = [endCause EXCEPT !["input"] = "readerr"]
    /\ UNCHANGED << fingerprint, isPty, rdone, sshExit, toClient, wsOut, wsIn,
                    peerClosed, connClosed, sshIn, clientEOF, winCh, exitRecv, nKeys,
                    nDown, nTicks, nWin, dial, nClose, nExit, offRelay >>

\* (mutant) the reader closes done on an exit message and goes on reading
WsrReadKeepsReading ==
    /\ rpc["wsr"] = "read" /\ wsIn # << >>
    /\ wsIn' = Tail(wsIn)
    /\ LET p == ParseMessage(Head(wsIn))
           msg == p.msg
       IN  IF ~p.err /\ msg.type = "exit"
           THEN /\ exitRecv' = msg.code
                /\ rdone' = TRUE /\ nClose' = nClose + 1
           ELSE UNCHANGED << exitRecv, rdone, nClose >>
    /\ UNCHANGED << rpc, endCause, toClient, fingerprint, isPty, sshExit, wsOut, peerClosed,
                    connClosed, sshIn, clientEOF, winCh, nKeys, nDown, nTicks, nWin, dial,
                    nExit, offRelay >>

\* downstream reader: ReadMessage returns a frame
WsrRead ==
    /\ rpc["wsr"] = "read" /\ wsIn # << >>
    /\ wsIn' = Tail(wsIn)
    /\ LET p == ParseMessage(Head(wsIn))
           msg == p.msg
           d == DecodeString(msg.data)
       IN  /\ toClient' =
                 IF p.err THEN toClient
                 ELSE IF msg.type = "data" /\ d.ok THEN Append(toClient, Written("", "", d.bytes))
                 ELSE IF msg.type = "error" THEN Append(toClient, Written("Error: %s\r\n", msg.error, << >>))
                 ELSE toClient
           /\ IF ~p.err /\ msg.type = "exit"
              THEN /\ exitRecv' = msg.code
                   /\ rdone' = TRUE /\ nClose' = nClose + 1
                   /\ rpc' = [rpc EXCEPT !["wsr"] = "ended"]
                   /\ endCause' = [endCause EXCEPT !["wsr"] = "exit"]
              ELSE UNCHANGED << exitRecv, rdone, nClose, rpc, endCause >>
    /\ UNCHANGED << fingerprint, isPty, sshExit, wsOut, peerClosed, connClosed, sshIn,
                    clientEOF, winCh, nKeys, nDown, nTicks, nWin, dial, nExit, offRelay >>

\* downstream reader: ReadMessage returns an error, close(done)
WsrErr ==
    /\ rpc["wsr"] = "read" /\ wsIn = << >> /\ peerClosed
    /\ rdone' = TRUE /\ nClose' = nClose + 1
    /\ rpc' = [rpc EXCEPT !["wsr"] = "ended"]
    /\ endCause' = [endCause EXCEPT !["wsr"] = "close"]
    /\ UNCHANGED << fingerprint, isPty, sshExit, toClient, wsOut, wsIn, peerClosed,
                    connClosed, sshIn, clientEOF, winCh, exitRecv, nKeys, nDown, nTicks,
                    nWin, dial, nExit, offRelay >>

\* resize forwarder: case <-done
ResizeDone ==
    /\ rpc["resize"] = "select" /\ rdone
    /\ rpc' = [rpc EXCEPT !["resize"] = "ended"]
    /\ endCause' = [endCause EXCEPT !["resize"] = "done"]
    /\ UNCHANGED << fingerprint, isPty, rdone, sshExit, toClient, wsOut, wsIn,
                    peerClosed, connClosed, sshIn, clientEOF, winCh, exitRecv, nKeys,
                    nDown, nTicks, nWin, dial, nClose, nExit, offRelay >>

\* resize forwarder: a window change is taken from winCh and written
ResizeSend(ok) ==
    /\ rpc["resize"] = "select" /\ winCh # << >>
    /\ ok \/ peerClosed
    /\ winCh' = Tail(winCh)
    /\ IF ok
       THEN /\ wsOut' = Append(wsOut, Marshal(NewResizeMessage(Head(winCh)[1], Head(winCh)[2])))
            /\ UNCHANGED << rpc, endCause >>
       ELSE /\ rpc' = [rpc EXCEPT !["resize"] = "ended"]
            /\ endCause' = [endCause EXCEPT !["resize"] = "writeerr"]
            /\ UNCHANGED wsOut
    /\ UNCHANGED << fingerprint, isPty, rdone, sshExit, toClient, wsIn, peerClosed,
                    connClosed, sshIn, clientEOF, exitRecv, nKeys, nDown, nTicks, nWin,
                    dial, nClose, nExit, offRelay >>

\* resize forwarder: winCh is closed with the client's session
ResizeClosed ==
    /\ rpc["resize"] = "select" /\ winCh = << >> /\ clientEOF
    /\ rpc' = [rpc EXCEPT !["resize"] = "ended"]
    /\ endCause' = [endCause EXCEPT !["resize"] = "close"]
    /\ UNCHANGED << fingerprint, isPty, rdone, sshExit, toClient, wsOut, wsIn,
                    peerClosed, connClosed, sshIn, clientEOF, winCh, exitRecv, nKeys,
                    nDown, nTicks, nWin, dial, nClose, nExit, offRelay >>

\* (mutant) the session that streamed ends with status 1
MainExitOne ==
    /\ rpc["main"] = "wait" /\ \A g \in Duties : rpc[g] = "ended"
    /\ sshExit' = 1 /\ nExit' = nExit + 1
    /\ connClosed' = TRUE
    /\ rpc' = [rpc EXCEPT !["main"] = "exited"]
    /\ UNCHANGED << fingerprint, isPty, rdone, endCause, toClient, wsOut, wsIn,
                    peerClosed, sshIn, clientEOF, winCh, exitRecv, nKeys, nDown, nTicks,
                    nWin, dial, nClose, offRelay >>

\* wg.Wait() returns: s.Exit(0), and the deferred conn.Close()
MainExit ==
    /\ rpc["main"] = "wait" /\ \A g \in Duties : rpc[g] = "ended"
    /\ sshExit' = 0 /\ nExit' = nExit + 1
    /\ connClosed' = TRUE
    /\ rpc' = [rpc EXCEPT !["main"] = "exited"]
    /\ UNCHANGED << fingerprint, isPty, rdone, endCause, toClient, wsOut, wsIn,
                    peerClosed, sshIn, clientEOF, winCh, exitRecv, nKeys, nDown, nTicks,
                    nWin, dial, nClose, offRelay >>

\* the client types a chunk
ClientType ==
    /\ rpc["main"] = "wait" /\ ~clientEOF /\ nKeys < MaxKeys
    /\ nKeys' = nKeys + 1
    /\ sshIn' = Append(sshIn, << 96 + nKeys + 1 >>)
    /\ UNCHANGED << rpc, fingerprint, isPty, rdone, endCause, sshExit, toClient, wsOut,
                    wsIn, peerClosed, connClosed, clientEOF, winCh, exitRecv, nDown,
                    nTicks, nWin, dial, nClose, nExit, offRelay >>

\* the client closes its session
ClientClose ==
    /\ rpc["main"] = "wait" /\ ~clientEOF
    /\ clientEOF' = TRUE
    /\ UNCHANGED << rpc, fingerprint, isPty, rdone, endCause, sshExit, toClient, wsOut,
                    wsIn, peerClosed, connClosed, sshIn, winCh, exitRecv, nKeys, nDown,
                    nTicks, nWin, dial, nClose, nExit, offRelay >>

\* the client's window changes
WinChange(g) ==
    /\ rpc["main"] = "wait" /\ ~clientEOF /\ nWin < MaxWin
    /\ nWin' = nWin + 1
    /\ winCh' = Append(winCh, g)
    /\ UNCHANGED << rpc, fingerprint, isPty, rdone, endCause, sshExit, toClient, wsOut,
                    wsIn, peerClosed, connClosed, sshIn, clientEOF, exitRecv, nKeys,
                    nDown, nTicks, dial, nClose, nExit, offRelay >>

\* downstream sends a frame
DownSend(f) ==
    /\ rpc["main"] = "wait" /\ ~peerClosed /\ nDown < MaxDown
    /\ nDown' = nDown + 1
    /\ wsIn' = Append(wsIn, f)
    /\ UNCHANGED << rpc, fingerprint, isPty, rdone, endCause, sshExit, toClient, wsOut,
                    peerClosed, connClosed, sshIn, clientEOF, winCh, exitRecv, nKeys,
                    nTicks, nWin, dial, nClose, nExit, offRelay >>

\* downstream closes or resets the stream
PeerClose ==
    /\ rpc["main"] \in {"init", "wait"} /\ ~peerClosed
    /\ peerClosed' = TRUE
    /\ UNCHANGED << rpc, fingerprint, isPty, rdone, endCause, sshExit, toClient, wsOut,
                    wsIn, connClosed, sshIn, clientEOF, winCh, exitRecv, nKeys, nDown,
                    nTicks, nWin, dial, nClose, nExit, offRelay >>

\* the steps of the handler and of each goroutine
MainStep == AuthCheck \/ PtyCheck \/ DialOk \/ DialFail \/ SendInitOk \/ SendInitFail \/ MainExit
PingStep == PingDone \/ \E ok \in BOOLEAN : PingTick(ok)
InputStep == InputDone \/ InputDefault \/ InputEOF \/ \E ok \in BOOLEAN : InputRead(ok)
WsrStep == WsrRead \/ WsrErr
ResizeStep == ResizeDone \/ ResizeClosed \/ \E ok \in BOOLEAN : ResizeSend(ok)

RelayNext ==
    \/ \E fp \in Fingerprints, pty \in BOOLEAN : HandlerEnter(fp, pty)
    \/ AuthCheck
    \/ PtyCheck
    \/ DialOk
    \/ DialFail
    \/ SendInitOk
    \/ SendInitFail
    \/ PingDone
    \/ \E ok \in BOOLEAN : PingTick(ok)
    \/ InputDone
    \/ InputDefault
    \/ \E ok \in BOOLEAN : InputRead(ok)
    \/ InputEOF
    \/ WsrRead
    \/ WsrErr
    \/ ResizeDone
    \/ \E ok \in BOOLEAN : ResizeSend(ok)
    \/ ResizeClosed
    \/ MainExit
    \/ ClientType
    \/ ClientClose
    \/ \E g \in Geoms : WinChange(g)
    \/ \E f \in DownFrames : DownSend(f)
    \/ PeerClose

SpecRelay == Init /\ [][RelayNext]_vars

(***************************************************************************)
(* SpecRelayFair: every goroutine that can take a step takes one, and the  *)
(* ticker ticks; the client and downstream are under no obligation.        *)
(***************************************************************************)
SpecRelayFair ==
    /\ SpecRelay
    /\ WF_vars(MainStep)
    /\ WF_vars(PingStep)
    /\ WF_vars(InputStep)
    /\ WF_vars(WsrStep)
    /\ WF_vars(ResizeStep)

\* a duty has ended because of a stream close, a read error or a write error
DutyFailed == \E g \in Duties : endCause[g] \in {"close", "readerr", "writeerr"}

Terminated == rpc["main"] = "exited" /\ \A g \in Duties : rpc[g] = "ended"

(***************************************************************************)
(* C9.  Once a duty of a Streaming session has ended because of a stream   *)
(* close, a read error or a write error, the other three stop and the      *)
(* session terminates, whatever the client and downstream do or do not do  *)
(* afterwards.                                                             *)
(***************************************************************************)
C9_OneDutyEndsAll == DutyFailed ~> Terminated

(***************************************************************************)
(* C10.  A session that ended after the relay handled an exit message with *)
(* code c was ended with exit status c.                                    *)
(***************************************************************************)
C10_ExitStatusIsCode ==
    (rpc["main"] = "exited" /\ exitRecv >= 0) => sshExit = exitRecv



----------------------------------------------------------------------------
(***************************************************************************)
(* SpecPipe: one session between the client and a running terminal.  The   *)
(* relay forwards what the client types and sends its pings; the tier      *)
(* (container-manager.ts) handles each message from the relay, by the      *)
(* container stream once containerWsReady and by HTTP before; the bridge    *)
(* serves every request in its own goroutine.  A handler of the tier that  *)
(* awaits containerFetch leaves the next message to be handled meanwhile.  *)
(***************************************************************************)
\* chunks the client types, pings of the relay, bytes the terminal produces
MaxTyped == 2
MaxRelayPings == 2
MaxPipeOut == 2

\* the variables of the bridge these steps leave as they are
bridgeRest == << alive, sessionOnce, session, isRunning, exitCode, done, winsize,
                 clients, pc, geom, btodo, bmsg, rdflags, sent, spawned,
                 sessionsMade, winApplied, nWsMsgs, nBcast, attachedAt, chunks, span,
                 clientsAtExit, exitAudience, readLog, statusLog, nPolls >>
offPipe == << relayVars, bridgeRest, authVars, extraVars >>

\* the HTTP requests the tier can make: one per message from the relay
ReqIds == 1..(MaxTyped + MaxRelayPings)

\* the request or reply with the given id
ById(set, id) == CHOOSE r \in set : r.id = id

\* an HTTP request of the tier to the bridge
Request(id, path, data, stage) == [id |-> id, path |-> path, data |-> data, stage |-> stage]

\* the relay's input forwarder: s.Read returns a chunk, sent as a data message
RelayForward ==
    /\ Len(typed) < MaxTyped
    /\ LET chunk == << 96 + Len(typed) + 1 >>
       IN  /\ typed' = Append(typed, chunk)
           /\ upQ' = Append(upQ, Marshal(NewDataMessage(EncodeToString(chunk))))
    /\ UNCHANGED << containerWsReady, cwsUp, cwsDown, flight, replies, toRelay, nReq,
                    nRelayPings, ptyIn, output, nTaken, sinceDrain, overflowed, offPipe >>

\* the relay's pinger
RelayPing ==
    /\ nRelayPings < MaxRelayPings
    /\ nRelayPings' = nRelayPings + 1
    /\ upQ' = Append(upQ, Marshal(NewPingMessage(nRelayPings + 1)))
    /\ UNCHANGED << typed, containerWsReady, cwsUp, cwsDown, flight, replies, toRelay,
                    nReq, ptyIn, output, nTaken, sinceDrain, overflowed, offPipe >>

\* connectContainerWebSocket completes: the bridge has attached the stream
ContainerWsUp ==
    /\ ~containerWsReady
    /\ containerWsReady' = TRUE
    /\ UNCHANGED << typed, upQ, cwsUp, cwsDown, flight, replies, toRelay, nReq,
                    nRelayPings, ptyIn, output, nTaken, sinceDrain, overflowed, offPipe >>

\* webSocketMessage, case 'data', up to its await
TierOnData ==
    /\ upQ # << >> /\ Head(upQ).json /\ Head(upQ).fields.type = "data"
    /\ upQ' = Tail(upQ)
    /\ IF containerWsReady
       THEN /\ cwsUp' = Append(cwsUp, Head(upQ).fields)
            /\ UNCHANGED << flight, nReq >>
       ELSE /\ flight' = flight \cup
                   { Request(nReq + 1, "writeread", Head(upQ).fields.data, "sent") }
            /\ nReq' = nReq + 1
            /\ UNCHANGED cwsUp
    /\ UNCHANGED << typed, containerWsReady, cwsDown, replies, toRelay, nRelayPings,
                    ptyIn, output, nTaken, sinceDrain, overflowed, offPipe >>

\* (mutant) the tier drains on every ping
TierOnPingAlwaysDrains ==
    /\ upQ # << >> /\ Head(upQ).json /\ Head(upQ).fields.type = "ping"
    /\ upQ' = Tail(upQ)
    /\ toRelay' = Append(toRelay, PongMsg("", Head(upQ).fields.timestamp))
    /\ flight' = flight \cup { Request(nReq + 1, "read", << >>, "sent") }
    /\ nReq' = nReq + 1
    /\ UNCHANGED << typed, containerWsReady, cwsUp, cwsDown, replies, nRelayPings,
                    ptyIn, output, nTaken, sinceDrain, overflowed, offPipe >>

\* webSocketMessage, case 'ping', up to its await
TierOnPing ==
    /\ upQ # << >> /\ Head(upQ).json /\ Head(upQ).fields.type = "ping"
    /\ upQ' = Tail(upQ)
    /\ toRelay' = Append(toRelay, PongMsg("", Head(upQ).fields.timestamp))
    /\ IF ~containerWsReady
       THEN /\ flight' = flight \cup { Request(nReq + 1, "read", << >>, "sent") }
            /\ nReq' = nReq + 1
       ELSE UNCHANGED << flight, nReq >>
    /\ UNCHANGED << typed, containerWsReady, cwsUp, cwsDown, replies, nRelayPings,
                    ptyIn, output, nTaken, sinceDrain, overflowed, offPipe >>

\* writeAndReadHttp / readAndBroadcastHttp after the await: every line of the
\* reply is broadcast to the relay
TierResume(id) ==
    /\ \E r \in replies : r.id = id
    /\ replies' = replies \ { ById(replies, id) }
    /\ toRelay' = toRelay \o ById(replies, id).msgs
    /\ UNCHANGED << typed, upQ, containerWsReady, cwsUp, cwsDown, flight, nReq,
                    nRelayPings, ptyIn, output, nTaken, sinceDrain, overflowed, offPipe >>

\* the tier's listener on the container stream
TierOnContainerMsg ==
    /\ cwsDown # << >>
    /\ cwsDown' = Tail(cwsDown)
    /\ toRelay' = Append(toRelay, Head(cwsDown))
    /\ UNCHANGED << typed, upQ, containerWsReady, cwsUp, flight, replies, nReq,
                    nRelayPings, ptyIn, output, nTaken, sinceDrain, overflowed, offPipe >>

\* the bridge's push-stream handler, case MsgData
BridgeWsData ==
    /\ cwsUp # << >>
    /\ cwsUp' = Tail(cwsUp)
    /\ ptyIn' = PtyWrite(ptyIn, DecodeString(Head(cwsUp).data), isRunning)
    /\ UNCHANGED << typed, upQ, containerWsReady, cwsDown, flight, replies, toRelay,
                    nReq, nRelayPings, output, nTaken, sinceDrain, overflowed, offPipe >>

\* handleWriteRead: the bytes are written to the pseudo-terminal
BridgeWriteReadWrite(id) ==
    /\ \E r \in flight : r.id = id /\ r.path = "writeread" /\ r.stage = "sent"
    /\ LET r == ById(flight, id)
       IN  /\ ptyIn' = PtyWrite(ptyIn, DecodeString(r.data), isRunning)
           /\ flight' = (flight \ {r}) \cup { Request(r.id, r.path, r.data, "written") }
    /\ UNCHANGED << typed, upQ, containerWsReady, cwsUp, cwsDown, replies, toRelay,
                    nReq, nRelayPings, output, nTaken, sinceDrain, overflowed, offPipe >>

\* handleRead, and handleWriteRead after its write: the Output Buffer is
\* drained into the reply
BridgeDrain(id) ==
    /\ \E r \in flight :
          /\ r.id = id
          /\ \/ r.path = "read" /\ r.stage = "sent"
             \/ r.path = "writeread" /\ r.stage = "written"
    /\ LET b == BufferRead(output)
       IN  /\ output' = b.rest
           /\ replies' = replies \cup
                  { [id |-> id, msgs |-> ReadReply(b.data, isRunning, exitCode)] }
    /\ sinceDrain' = 0
    /\ flight' = flight \ { ById(flight, id) }
    /\ UNCHANGED << typed, upQ, containerWsReady, cwsUp, cwsDown, toRelay, nReq,
                    nRelayPings, ptyIn, nTaken, overflowed, offPipe >>

\* readPTYOutput: a chunk goes to the Output Buffer and to the container
\* stream if one is attached
PipeReaderTake(n) ==
    /\ nTaken + n <= MaxPipeOut
    /\ LET data == StreamBytes(nTaken + 1, nTaken + n)
       IN  /\ output' = BufferWrite(output, data)
           /\ cwsDown' = IF containerWsReady THEN Append(cwsDown, DataMsg(data))
                         ELSE cwsDown
    /\ nTaken' = nTaken + n
    /\ sinceDrain' = sinceDrain + n
    /\ overflowed' = (overflowed \/ Len(output) + n > BufCeiling)
    /\ UNCHANGED << typed, upQ, containerWsReady, cwsUp, flight, replies, toRelay, nReq,
                    nRelayPings, ptyIn, offPipe >>

PipeNext ==
    \/ RelayForward
    \/ RelayPing
    \/ ContainerWsUp
    \/ TierOnData
    \/ TierOnPing
    \/ \E id \in ReqIds : TierResume(id)
    \/ TierOnContainerMsg
    \/ BridgeWsData
    \/ \E id \in ReqIds : BridgeWriteReadWrite(id)
    \/ \E id \in ReqIds : BridgeDrain(id)
    \/ \E n \in 1..MaxChunk : PipeReaderTake(n)

SpecPipe == StreamInit /\ [][PipeNext]_vars

IsPrefix(s, t) == Len(s) <= Len(t) /\ s = SubSeq(t, 1, Len(s))

(***************************************************************************)
(* C7.  What has been written to the pseudo-terminal is, in order, the     *)
(* beginning of what the relay read from the client.                       *)
(***************************************************************************)
C7_InputOrderKept == IsPrefix(ptyIn, Concat(typed))

(***************************************************************************)
(* C8.  In buffered-polling mode (no container stream), the data payloads  *)
(* that have reached the relay are, in order, the beginning of what the    *)
(* terminal produced.                                                      *)
(***************************************************************************)
C8_OutputOrderKept ==
    ~containerWsReady => IsPrefix(PayloadBytes(toRelay), StreamBytes(1, nTaken))



----------------------------------------------------------------------------
(***************************************************************************)
(* SpecAuth: connections authenticate by public key against the registry.  *)
(* A query or a write of the table is one step (one SQL statement); the    *)
(* handler of one connection may run between the KeyExists and the         *)
(* RegisterKey of another.  Either statement may fail.                     *)
(***************************************************************************)
\* gossh.FingerprintSHA256
FingerprintSHA256(k) == IF k = "k1" THEN "SHA256:k1" ELSE "SHA256:k2"

\* a row of the keys table; last_used 0 is NULL
Row(fp, k, created, used) ==
    [fingerprint |-> fp, public_key |-> k, created_at |-> created, last_used |-> used]

\* SELECT COUNT(*) FROM keys WHERE fingerprint = ? ... count > 0
KeyExists(table, fp) == Cardinality({ r \in table : r.fingerprint = fp }) > 0

\* (mutant) a plain INSERT that leaves the old row in place
InsertKeepOld(table, row) == table \cup {row}

\* INSERT OR REPLACE INTO keys: the row of the same fingerprint is removed
InsertOrReplace(table, row) ==
    { r \in table : r.fingerprint # row.fingerprint } \cup {row}

\* UPDATE keys SET last_used = ? WHERE fingerprint = ?
UpdateLastUsed(table, fp, now) ==
    { IF r.fingerprint = fp THEN Row(r.fingerprint, r.public_key, r.created_at, now) ELSE r :
        r \in table }

\* Count
Count(table) == Cardinality(table)

\* the registries the relay may start with
StartTables == { {}, { Row(FingerprintSHA256("k2"), "k2", 0, 0) } }

AuthInit ==
    /\ keys \in StartTables
    /\ keys0 = keys
    /\ autoRegister \in BOOLEAN
    /\ apc = [c \in AuthConns |-> "new"]
    /\ akey = [c \in AuthConns |-> "k1"]
    /\ aexists = [c \in AuthConns |-> FALSE]
    /\ aresult = [c \in AuthConns |-> ""]
    /\ acause = [c \in AuthConns |-> ""]
    /\ ctxValue = [c \in AuthConns |-> ""]
    /\ nRegs = [c \in AuthConns |-> 0]
    /\ mutatedBy = {}
    /\ aclock = 1

\* a connection presents a key and the handler is called
AuthArrive(c, k) ==
    /\ apc[c] = "new"
    /\ akey' = [akey EXCEPT ![c] = k]
    /\ apc' = [apc EXCEPT ![c] = "check"]
    /\ UNCHANGED << keys, keys0, autoRegister, aexists, aresult, acause, ctxValue,
                    nRegs, mutatedBy, aclock, offAuth >>

\* (mutant) a handler that registers an unknown key whatever autoRegister is
KeyExistsOkAlwaysRegister(c) ==
    /\ apc[c] = "check"
    /\ LET fp == FingerprintSHA256(akey[c])
           exists == KeyExists(keys, fp)
       IN  /\ aexists' = [aexists EXCEPT ![c] = exists]
           /\ IF exists
              THEN /\ ctxValue' = [ctxValue EXCEPT ![c] = fp]
                   /\ aresult' = [aresult EXCEPT ![c] = "true"]
                   /\ apc' = [apc EXCEPT ![c] = "done"]
                   /\ UNCHANGED acause
              ELSE /\ apc' = [apc EXCEPT ![c] = "register"]
                   /\ UNCHANGED << ctxValue, aresult, acause >>
    /\ UNCHANGED << keys, keys0, autoRegister, akey, acause, nRegs, mutatedBy, aclock,
                    offAuth >>

\* KeyExists answers: a known key is accepted; an unknown one is rejected
\* unless autoRegister, and then goes on to RegisterKey
KeyExistsOk(c) ==
    /\ apc[c] = "check"
    /\ LET fp == FingerprintSHA256(akey[c])
           exists == KeyExists(keys, fp)
       IN  /\ aexists' = [aexists EXCEPT ![c] = exists]
           /\ IF exists
              THEN /\ ctxValue' = [ctxValue EXCEPT ![c] = fp]
                   /\ aresult' = [aresult EXCEPT ![c] = "true"]
                   /\ apc' = [apc EXCEPT ![c] = "done"]
                   /\ UNCHANGED acause
              ELSE IF ~autoRegister
              THEN /\ aresult' = [aresult EXCEPT ![c] = "false"]
                   /\ acause' = [acause EXCEPT ![c] = "unknown"]
                   /\ apc' = [apc EXCEPT ![c] = "done"]
                   /\ UNCHANGED ctxValue
              ELSE /\ apc' = [apc EXCEPT ![c] = "register"]
                   /\ UNCHANGED << ctxValue, aresult, acause >>
    /\ UNCHANGED << keys, keys0, autoRegister, akey, nRegs, mutatedBy, aclock, offAuth >>

\* KeyExists returns an error: the handler returns false
KeyExistsErr(c) ==
    /\ apc[c] = "check"
    /\ aresult' = [aresult EXCEPT ![c] = "false"]
    /\ acause' = [acause EXCEPT ![c] = "storage"]
    /\ apc' = [apc EXCEPT ![c] = "done"]
    /\ UNCHANGED << keys, keys0, autoRegister, akey, aexists, ctxValue, nRegs,
                    mutatedBy, aclock, offAuth >>

\* RegisterKey writes the row: the key is accepted
RegisterKeyOk(c) ==
    /\ apc[c] = "register"
    /\ LET fp == FingerprintSHA256(akey[c])
       IN  /\ keys' = InsertOrReplace(keys, Row(fp, akey[c], aclock, 0))
           /\ ctxValue' = [ctxValue EXCEPT ![c] = fp]
    /\ aclock' = aclock + 1
    /\ nRegs' = [nRegs EXCEPT ![c] = @ + 1]
    /\ mutatedBy' = mutatedBy \cup {c}
    /\ aresult' = [aresult EXCEPT ![c] = "true"]
    /\ apc' = [apc EXCEPT ![c] = "done"]
    /\ UNCHANGED << keys0, autoRegister, akey, aexists, acause, offAuth >>

\* RegisterKey returns an error: the handler returns false
RegisterKeyErr(c) ==
    /\ apc[c] = "register"
    /\ aresult' = [aresult EXCEPT ![c] = "false"]
    /\ acause' = [acause EXCEPT ![c] = "storage"]
    /\ apc' = [apc EXCEPT ![c] = "done"]
    /\ UNCHANGED << keys, keys0, autoRegister, akey, aexists, ctxValue, nRegs,
                    mutatedBy, aclock, offAuth >>

\* the session of an accepted connection: registry.UpdateLastUsed(fingerprint)
SessionTouch(c) ==
    /\ apc[c] = "done" /\ aresult[c] = "true"
    /\ keys' = UpdateLastUsed(keys, ctxValue[c], aclock)
    /\ mutatedBy' = IF keys' # keys THEN mutatedBy \cup {c} ELSE mutatedBy
    /\ aclock' = aclock + 1
    /\ apc' = [apc EXCEPT ![c] = "session"]
    /\ UNCHANGED << keys0, autoRegister, akey, aexists, aresult, acause, ctxValue,
                    nRegs, offAuth >>

AuthNext ==
    \/ \E c \in AuthConns, k \in PublicKeys : AuthArrive(c, k)
    \/ \E c \in AuthConns : KeyExistsOk(c)
    \/ \E c \in AuthConns : KeyExistsErr(c)
    \/ \E c \in AuthConns : RegisterKeyOk(c)
    \/ \E c \in AuthConns : RegisterKeyErr(c)
    \/ \E c \in AuthConns : SessionTouch(c)

SpecAuthInit == BridgeInit /\ RelayIdle /\ PipeIdle /\ AuthInit /\ ExtraIdle

SpecAuth == SpecAuthInit /\ [][AuthNext]_vars

\* the handler of c has returned
Returned(c) == apc[c] \in {"done", "session"}

\* the key of c had no row when the relay started
Unknown0(c) == ~KeyExists(keys0, FingerprintSHA256(akey[c]))

\* fingerprints with a row
FingerprintsOf(table) == { r.fingerprint : r \in table }

(***************************************************************************)
(* C11.  With auto-registration disabled, a connection whose fingerprint   *)
(* is not in the registry is rejected, its handler changes no row, no row  *)
(* for an unknown fingerprint ever appears and the row count stays what it *)
(* was.                                                                    *)
(***************************************************************************)
C11_UnknownRejectedNoMutation ==
    ~autoRegister =>
        /\ \A c \in AuthConns :
              (Returned(c) /\ Unknown0(c)) =>
                  /\ aresult[c] = "false"
                  /\ ctxValue[c] = ""
                  /\ c \notin mutatedBy
        /\ FingerprintsOf(keys) = FingerprintsOf(keys0)
        /\ Count(keys) = Count(keys0)

\* an unknown key was rejected as unknown while a known key was accepted and
\* its session touched its row
C11_Witness ==
    /\ ~autoRegister
    /\ \E c \in AuthConns : Returned(c) /\ Unknown0(c) /\ acause[c] = "unknown"
    /\ \E c \in AuthConns : apc[c] = "session" /\ c \in mutatedBy
    /\ keys # keys0

\* fingerprints unknown at the start that some connection has registered
NewlyRegistered ==
    { FingerprintSHA256(akey[c]) : c \in { d \in AuthConns : nRegs[d] > 0 } }

(***************************************************************************)
(* C12.  With auto-registration enabled, every connection from a           *)
(* previously unknown credential whose registry statements succeed is      *)
(* accepted; the table holds exactly one row per fingerprint, so the row   *)
(* count has grown by exactly one per newly registered credential however  *)
(* many connections registered it; and a connection that found the         *)
(* fingerprint present made no registration.                               *)
(***************************************************************************)
C12_RegisteredExactlyOnce ==
    autoRegister =>
        /\ \A c \in AuthConns :
              (Returned(c) /\ Unknown0(c) /\ acause[c] # "storage") =>
                  /\ aresult[c] = "true"
                  /\ Cardinality({ r \in keys :
                         r.fingerprint = FingerprintSHA256(akey[c]) }) = 1
        /\ \A fp \in FingerprintsOf(keys) :
              Cardinality({ r \in keys : r.fingerprint = fp }) = 1
        /\ Count(keys) = Count(keys0) + Cardinality(NewlyRegistered)
        /\ \A c \in AuthConns : aexists[c] => nRegs[c] = 0

\* three connections from one unknown credential were all accepted, two of
\* them raced and both wrote the row, a third found it present; one row more
C12_Witness ==
    /\ autoRegister
    /\ \A c \in AuthConns : Returned(c) /\ akey[c] = "k1" /\ aresult[c] = "true"
    /\ Cardinality({ c \in AuthConns : nRegs[c] = 1 }) = 2
    /\ \E c \in AuthConns : aexists[c] /\ nRegs[c] = 0
    /\ Count(keys) = Count(keys0) + 1

(***************************************************************************)
(* C13.  A connection whose registry statement failed is given an outcome  *)
(* that is neither acceptance nor the outcome given to a rejected unknown  *)
(* credential.                                                             *)
(***************************************************************************)
C13_StorageFailureDistinct ==
    \A c \in AuthConns :
        acause[c] = "storage" =>
            /\ aresult[c] # "true"
            /\ \A d \in AuthConns : acause[d] = "unknown" => aresult[d] # aresult[c]



(***************************************************************************)
(* The bridge frame by frame: what handleWebSocket and handleWrite do with *)
(* each kind of frame a peer can send, well formed or not.                 *)
(***************************************************************************)
\* frames one push stream sends, bodies posted to the write entry
MaxFrames == 4
MaxBodies == 3

\* json.Unmarshal / json.NewDecoder(...).Decode into a Message
Unmarshal(frame) ==
    IF frame.json THEN [err |-> FALSE, msg |-> frame.fields]
    ELSE [err |-> TRUE, msg |-> Message("", 0, 0, <<>>, 0, "", 0)]

\* a frame that is not JSON
Garbage == [json |-> FALSE, fields |-> Message("", 0, 0, <<>>, 0, "", 0)]

GoodData == Marshal(Message("data", 0, 0, EncodeToString(<<97>>), 0, "", 0))
BadPayload == Marshal(Message("data", 0, 0, <<1, 2>>, 0, "", 0))
UnknownType == Marshal(Message("bogus", 0, 0, <<>>, 0, "", 0))

\* what a peer of the bridge may send
BridgeFrames ==
    { GoodData, BadPayload, UnknownType, Garbage,
      Marshal(Message("init", 120, 40, <<>>, 0, "", 0)),
      Marshal(Message("resize", 120, 40, <<>>, 0, "", 0)) }

Handled(frame, outcome) == [frame |-> frame, outcome |-> outcome]

\* handleWebSocket, the first frame: it must parse and be an init, or the
\* handler answers with an error and returns (the deferred conn.Close runs)
WsFirstFrame(c, f) ==
    /\ alive /\ pc[c] = "first" /\ Len(wsLog[c]) < MaxFrames
    /\ LET u == Unmarshal(f)
       IN  IF u.err \/ u.msg.type # "init"
           THEN /\ pc' = [pc EXCEPT ![c] = "closed"]
                /\ sent' = [sent EXCEPT ![c] = Append(@,
                               ErrorMsg(IF u.err THEN "Failed to parse init message"
                                        ELSE "Expected init message"))]
                /\ geom' = geom
                /\ wsLog' = [wsLog EXCEPT ![c] = Append(@, Handled(f, "closed"))]
           ELSE /\ pc' = [pc EXCEPT ![c] = "once"]
                /\ geom' = [geom EXCEPT ![c] = <<u.msg.cols, u.msg.rows>>]
                /\ sent' = sent
                /\ wsLog' = [wsLog EXCEPT ![c] = Append(@, Handled(f, "init"))]
    /\ UNCHANGED << alive, sessionOnce, session, isRunning, exitCode, done, winsize,
                    output, clients, btodo, bmsg, rdflags, nTaken, ptyIn, spawned,
                    sessionsMade, winApplied, nWsMsgs, nBcast, attachedAt, chunks, span,
                    clientsAtExit, exitAudience, readLog, statusLog, nPolls, sinceDrain,
                    overflowed, httpLog, offFrames >>

\* handleWebSocket, one turn of the loop after a successful ReadMessage
WsLoopFrame(c, f) ==
    /\ alive /\ pc[c] = "loop" /\ Len(wsLog[c]) < MaxFrames
    /\ LET u == Unmarshal(f)
           d == DecodeString(u.msg.data)
           outcome == IF u.err THEN "dropped"
                      ELSE IF u.msg.type = "data"
                           THEN (IF ~d.ok THEN "dropped"
                                 ELSE IF isRunning THEN "written" ELSE "lost")
                      ELSE IF u.msg.type = "resize" THEN "resized"
                      ELSE IF u.msg.type = "ping" THEN "ponged"
                      ELSE "dropped"
       IN  /\ wsLog' = [wsLog EXCEPT ![c] = Append(@, Handled(f, outcome))]
           /\ ptyIn' = IF ~u.err /\ u.msg.type = "data"
                       THEN PtyWrite(ptyIn, d, isRunning) ELSE ptyIn
           /\ winsize' = IF outcome = "resized"
                         THEN <<u.msg.cols, u.msg.rows>> ELSE winsize
           /\ sent' = IF outcome = "ponged"
                      THEN [sent EXCEPT ![c] = Append(@, PongMsg("", u.msg.timestamp))]
                      ELSE sent
    /\ UNCHANGED << alive, sessionOnce, session, isRunning, exitCode, done, output,
                    clients, pc, geom, btodo, bmsg, rdflags, nTaken, spawned,
                    sessionsMade, winApplied, nWsMsgs, nBcast, attachedAt, chunks, span,
                    clientsAtExit, exitAudience, readLog, statusLog, nPolls, sinceDrain,
                    overflowed, httpLog, offFrames >>

\* handleWrite: every failure is answered with sendError and nothing else
\* happens; data is written to the terminal, a resize is applied
HandleWriteBody(f) ==
    /\ alive /\ Len(httpLog) < MaxBodies
    /\ LET u == Unmarshal(f)
           d == DecodeString(u.msg.data)
           outcome == IF session = "nil" \/ ~isRunning THEN "refused"
                      ELSE IF u.err THEN "dropped"
                      ELSE IF u.msg.type = "data"
                           THEN (IF d.ok THEN "written" ELSE "dropped")
                      ELSE IF u.msg.type = "resize" THEN "resized"
                      ELSE "dropped"
       IN  /\ httpLog' = Append(httpLog, Handled(f, outcome))
           /\ ptyIn' = IF outcome = "written" THEN PtyWrite(ptyIn, d, TRUE) ELSE ptyIn
           /\ winsize' = IF outcome = "resized"
                         THEN <<u.msg.cols, u.msg.rows>> ELSE winsize
    /\ UNCHANGED << alive, sessionOnce, session, isRunning, exitCode, done, output,
                    clients, pc, geom, btodo, bmsg, rdflags, nTaken, sent, spawned,
                    sessionsMade, winApplied, nWsMsgs, nBcast, attachedAt, chunks, span,
                    clientsAtExit, exitAudience, readLog, statusLog, nPolls, sinceDrain,
                    overflowed, wsLog, offFrames >>

\* one push stream and the write entry
FramesNext ==
    \/ WsConnect("w1")
    \/ \E f \in BridgeFrames : WsFirstFrame("w1", f)
    \/ OncePass("w1")
    \/ CheckRunning("w1")
    \/ InitResize("w1")
    \/ AddClient("w1")
    \/ WsHello("w1")
    \/ \E f \in BridgeFrames : WsLoopFrame("w1", f)
    \/ WsReadErr("w1")
    \/ RemoveClient("w1")
    \/ \E f \in BridgeFrames : HandleWriteBody(f)

SpecFrames == StreamInit /\ [][FramesNext]_vars

\* the envelope does not parse, the payload does not decode or the type is
\* not one the bridge knows
IllFormed(f) ==
    \/ Unmarshal(f).err
    \/ Unmarshal(f).msg.type \notin {"init", "data", "resize", "ping"}
    \/ Unmarshal(f).msg.type = "data" /\ ~DecodeString(Unmarshal(f).msg.data).ok

\* C14 (bridge push stream and HTTP write entry): an ill-formed frame is
\* dropped, the stream it came on is not ended by it, and a well-formed data
\* frame that comes next is written to the terminal.
C14_IllFormedDropped ==
    /\ \A c \in Conns : \A i \in 1..Len(wsLog[c]) :
          IllFormed(wsLog[c][i].frame) =>
              /\ wsLog[c][i].outcome = "dropped"
              /\ (i < Len(wsLog[c]) /\ wsLog[c][i + 1].frame = GoodData)
                     => wsLog[c][i + 1].outcome = "written"
    /\ \A i \in 1..Len(httpLog) :
          IllFormed(httpLog[i].frame) =>
              /\ httpLog[i].outcome = "dropped"
              /\ (i < Len(httpLog) /\ httpLog[i + 1].frame = GoodData)
                     => httpLog[i + 1].outcome = "written"

\* in the loop and at the write entry the frames are dropped as stated
IllFormedDroppedAfterInit ==
    /\ \A c \in Conns : \A i \in 2..Len(wsLog[c]) :
          IllFormed(wsLog[c][i].frame) =>
              /\ wsLog[c][i].outcome = "dropped"
              /\ (i < Len(wsLog[c]) /\ wsLog[c][i + 1].frame = GoodData)
                     => wsLog[c][i + 1].outcome = "written"
    /\ \A i \in 1..Len(httpLog) :
          IllFormed(httpLog[i].frame) =>
              /\ httpLog[i].outcome = "dropped"
              /\ (i < Len(httpLog) /\ httpLog[i + 1].frame = GoodData)
                     => httpLog[i + 1].outcome = "written"

IllFormedThenDataReached ==
    ~ /\ \E c \in Conns : /\ Len(wsLog[c]) = 3
                          /\ IllFormed(wsLog[c][2].frame)
                          /\ wsLog[c][3] = Handled(GoodData, "written")
      /\ Len(httpLog) = 2 /\ IllFormed(httpLog[1].frame)
      /\ httpLog[2] = Handled(GoodData, "written")


----------------------------------------------------------------------------
(***************************************************************************)
(* The relay handler before Streaming (SpecRelay).                         *)
(***************************************************************************)
\* the handler has returned
Ended == rpc["main"] = "exited"
\* the handler is past the fingerprint test, past the terminal test
PastAuth == rpc["main"] \notin {"off", "auth"}
PastPty == rpc["main"] \notin {"off", "auth", "pty"}
\* the texts written to the client so far
Texts == { toClient[i].text : i \in 1..Len(toClient) }
\* the init frame could not be written
InitFailed == dial = "ok" /\ Ended /\ wsOut = << >>
\* the types of the frames written downstream, in order
OutTypes == [i \in 1..Len(wsOut) |-> wsOut[i].fields.type]

(***************************************************************************)
(* C15.  Downstream is dialled only for a session with a non-empty         *)
(* fingerprint and an interactive terminal; a session that lacks either    *)
(* has ended with a message written to the client and a non-zero exit      *)
(* status, and no dial was made for it.                                    *)
(***************************************************************************)
C15_DialNeedsFingerprintAndPty ==
    /\ dial # "none" => (fingerprint # "" /\ isPty)
    /\ (PastAuth /\ fingerprint = "") =>
          /\ Ended /\ sshExit > 0 /\ dial = "none"
          /\ toClient = << Written("Authentication failed\r\n", "", << >>) >>
    /\ (PastPty /\ ~isPty) =>
          /\ Ended /\ sshExit > 0 /\ dial = "none"
          /\ Len(toClient) = 1

\* an authenticated session without a terminal has been turned away
C15_Witness ==
    /\ Ended /\ fingerprint # "" /\ ~isPty /\ sshExit = 1 /\ dial = "none"
    /\ toClient = << Written("PTY required. Use: ssh -t ...\r\n", "", << >>) >>

\* dials are made, and some succeed
DialReached == ~(dial = "ok" /\ fingerprint # "" /\ isPty)

(***************************************************************************)
(* C16.  A session whose dial failed was told "Failed to connect to        *)
(* backend" and ended with an exit status other than the one used for      *)
(* "Authentication failed".                                                *)
(***************************************************************************)
\* the status the handler gives an unauthenticated session (s.Exit(1))
AuthFailedStatus == 1

C16_DialFailureDistinctCode ==
    dial = "failed" =>
        /\ Ended
        /\ "Failed to connect to backend\r\n" \in Texts
        /\ sshExit # AuthFailedStatus

\* the unauthenticated session does end with AuthFailedStatus
AuthFailedStatusUsed ==
    (Ended /\ fingerprint = "") => sshExit = AuthFailedStatus

(***************************************************************************)
(* C17.  A session that has ended has exit status 0 or 1, and 1 exactly    *)
(* when the fingerprint was missing, the terminal was missing, the dial    *)
(* failed or the init frame could not be written.                          *)
(***************************************************************************)
C17_ExitOneOnSetupFailure ==
    /\ Ended =>
          /\ sshExit \in {0, 1}
          /\ sshExit = 1 <=>
                (fingerprint = "" \/ ~isPty \/ dial = "failed" \/ InitFailed)
    /\ ~Ended => sshExit = -1

\* a session streamed, received an exit message with code 2 and ended with 0
C17_Witness ==
    /\ Ended /\ sshExit = 0 /\ exitRecv = 2 /\ dial = "ok" /\ Len(wsOut) >= 1

\* each of the four failures is met
SetupFailuresReached ==
    ~ /\ Ended
      /\ sshExit = 1
      /\ InitFailed

(***************************************************************************)
(* C18.  Of the frames the relay writes downstream the first is the init   *)
(* frame and no later one is; no duty has started unless the dial          *)
(* succeeded and the init frame was written.                               *)
(***************************************************************************)
C18_InitFirstAndOnce ==
    /\ wsOut # << >> =>
          /\ OutTypes[1] = "init"
          /\ \A i \in 2..Len(wsOut) : OutTypes[i] \in {"data", "ping", "resize"}
    /\ (\E g \in Duties : rpc[g] # "off") =>
          /\ dial = "ok"
          /\ wsOut # << >>

\* the forwarders have written a data, a ping and a resize frame after the init
C18_Witness ==
    /\ Len(wsOut) >= 4
    /\ OutTypes[1] = "init"
    /\ {"data", "ping", "resize"} \subseteq { OutTypes[i] : i \in 2..Len(wsOut) }


----------------------------------------------------------------------------
(***************************************************************************)
(* The output reader and its consumers (SpecPoll: one attached push stream *)
(* and one poller).                                                        *)
(***************************************************************************)
\* the reader is inside Broadcast with a client.WriteMessage still to return:
\* its next ptmx.Read and output.Write come after that write
ReaderWaitsForClient == pc["reader"] = "writing" /\ btodo["reader"] # {}

\* at ptmx.Read with output left, the reader takes and appends the chunk
\* whatever the Output Buffer holds
ReaderNeverWaitsForPoller ==
    (alive /\ pc["reader"] = "reading" /\ nTaken < MaxOut) => ENABLED ReaderTake(1, MaxOut)

(***************************************************************************)
(* C19.  The output reader never waits for a consumer: it is never in a    *)
(* position where its next read and append come only after a push-stream   *)
(* client's write has returned, and at its read it takes and appends the   *)
(* next chunk whether or not a poller has drained the buffer.              *)
(***************************************************************************)
C19_ReaderNeverWaits ==
    /\ ~ReaderWaitsForClient
    /\ ReaderNeverWaitsForPoller


----------------------------------------------------------------------------
(***************************************************************************)
(* Output chunks and the members of the Client Set (SpecStream).           *)
(***************************************************************************)
\* the reader is not between a read and the end of that chunk's Broadcast
ReaderQuiet == pc["reader"] \notin {"bcast", "writing"}

\* where the message stands among those written to a push stream, 0 if nowhere
Pos(c, msg) ==
    IF \E i \in 1..Len(sent[c]) : sent[c][i] = msg
    THEN CHOOSE i \in 1..Len(sent[c]) : sent[c][i] = msg
    ELSE 0

\* the chunks of a set were written to the stream, in the order read
SentInOrder(c, ks) ==
    /\ \A k \in ks : Pos(c, chunks[k].msg) > 0
    /\ \A k1, k2 \in ks : k1 < k2 => Pos(c, chunks[k1].msg) < Pos(c, chunks[k2].msg)

\* the chunks read after the stream's AddClient and before its RemoveClient
TakenWhileMember(c) ==
    IF span[c].from < 0 THEN {}
    ELSE (span[c].from + 1)..(IF span[c].to >= 0 THEN span[c].to ELSE Len(chunks))

\* the chunks whose Broadcast took the lock with the stream in the Client Set
\* and has finished
BroadcastWhileMember(c) ==
    { k \in 1..Len(chunks) :
         /\ chunks[k].locked /\ c \in chunks[k].members
         /\ (k < Len(chunks) \/ ReaderQuiet) }

(***************************************************************************)
(* C20 as stated.  Once the reader is through with its broadcasts, every   *)
(* chunk it read between a stream's attach and its detach has been written *)
(* to the stream as a data message, in the order read.                     *)
(***************************************************************************)
C20_TakenWhileMemberSent ==
    ReaderQuiet => \A c \in Conns : SentInOrder(c, TakenWhileMember(c))

(***************************************************************************)
(* C20 amended.  Every chunk whose Broadcast took the client-set lock      *)
(* while the stream was in the Client Set is written to the stream as a    *)
(* data message, in the order read; these are all the chunks read after    *)
(* the attach, but for the last one read before the detach, which is among *)
(* them only if its Broadcast took the lock before RemoveClient.           *)
(***************************************************************************)
C20_BroadcastWhileMemberSent ==
    \A c \in Conns :
        /\ SentInOrder(c, BroadcastWhileMember(c))
        /\ \A k \in 1..Len(chunks) :
              /\ chunks[k].msg.type = "data"
              /\ (chunks[k].locked /\ c \in chunks[k].members) =>
                    /\ span[c].from >= 0 /\ span[c].from <= k
                    /\ (span[c].to < 0 \/ span[c].to >= k)
              /\ (chunks[k].locked /\ k \in TakenWhileMember(c)
                    /\ (span[c].to < 0 \/ span[c].to > k)) =>
                    c \in chunks[k].members

\* one stream was written both chunks in order, another attached between the
\* two and was written the second only, and has detached since
C20_Witness ==
    /\ Len(chunks) = 2 /\ ReaderQuiet
    /\ BroadcastWhileMember("w1") = {1, 2}
    /\ Pos("w1", chunks[1].msg) < Pos("w1", chunks[2].msg)
    /\ BroadcastWhileMember("w2") = {2}
    /\ Pos("w2", chunks[1].msg) = 0 /\ Pos("w2", chunks[2].msg) > 0
    /\ span["w2"].to = 2


----------------------------------------------------------------------------
(***************************************************************************)
(* A push stream that goes away (SpecStream).                              *)
(***************************************************************************)
\* the step is the stream's read failing in the loop, or its deferred
\* RemoveClient
Detaches(c) ==
    \/ pc[c] = "loop" /\ pc'[c] = "removing"
    \/ pc[c] = "removing" /\ pc'[c] = "closed"

\* what a detaching step leaves as it is
DetachIsLocal(c) ==
    /\ clients' = IF pc'[c] = "closed" THEN clients \ {c} ELSE clients
    /\ alive' = alive /\ isRunning' = isRunning /\ done' = done
    /\ exitCode' = exitCode
    /\ output' = output
    /\ \A d \in Conns \ {c} : pc'[d] = pc[d] /\ sent'[d] = sent[d]

\* a stream that is in the Client Set has been written every chunk read
\* since its attach whose Broadcast is over
MembersKeepReceiving ==
    \A d \in clients : \A k \in 1..Len(chunks) :
        (span[d].from >= 0 /\ span[d].from < k /\ chunks[k].locked
            /\ (k < Len(chunks) \/ ReaderQuiet))
        => Pos(d, chunks[k].msg) > 0

(***************************************************************************)
(* C21.  A step by which a push stream detaches or its connection fails    *)
(* removes that stream from the Client Set and no other, leaves the        *)
(* terminal process running and the Output Buffer as it is; the streams    *)
(* that stay in the Client Set go on being written every chunk.            *)
(***************************************************************************)
C21_DetachAffectsOnlyThatStream ==
    /\ [][\A c \in Conns : Detaches(c) => DetachIsLocal(c)]_vars
    /\ []MembersKeepReceiving

\* w1 has detached before the second chunk was read; w2, attached from the
\* start, was written both chunks, and the process is running
C21_Witness ==
    /\ span["w1"].from = 0 /\ span["w1"].to = 1 /\ pc["w1"] = "closed"
    /\ span["w2"].from = 0 /\ clients = {"w2"}
    /\ Len(chunks) = 2 /\ ReaderQuiet
    /\ Pos("w2", chunks[1].msg) > 0 /\ Pos("w2", chunks[2].msg) > 0
    /\ isRunning /\ alive


----------------------------------------------------------------------------
(***************************************************************************)
(* Inits after a failed start (Spec).                                      *)
(***************************************************************************)
\* sessionOnce has been used and pty.StartWithSize failed: no session object
StartFailed == sessionOnce = "done" /\ session = "nil"

\* the init was answered with success, or the stream was attached
AnsweredSuccess(p) == pc[p] \in {"done", "hello", "loop", "removing"} \/ p \in clients

\* an error message was written to the push stream
ErrorWritten(c) == \E i \in 1..Len(sent[c]) : sent[c][i].type = "error"

\* the handler of an init is over and has written no answer
Unanswered(p) ==
    IF p \in Reqs THEN pc[p] = "panicked"
    ELSE pc[p] = "closed" /\ geom[p] # <<0, 0>> /\ ~ErrorWritten(p)

\* without a session object no init is answered with success and no stream
\* is in the Client Set
NoSuccessWithoutSession ==
    StartFailed => \A p \in Reqs \cup Conns : ~AnsweredSuccess(p)

(***************************************************************************)
(* C22.  After the terminal process failed to start there is no session    *)
(* object, and every init, HTTP or push stream, whose handler is over was   *)
(* answered with an error message: none was answered with success,         *)
(* attached to the Client Set or left without an answer.                   *)
(***************************************************************************)
C22_FailedStartAnswersError ==
    StartFailed =>
        \A p \in Reqs \cup Conns : ~AnsweredSuccess(p) /\ ~Unanswered(p)

\* the init that ran the failed start was answered with an error message
FailedStartErrorReached ==
    ~ (StartFailed /\ pc["h1"] = "failed" /\ pc["w1"] = "closed" /\ ErrorWritten("w1"))


----------------------------------------------------------------------------
(***************************************************************************)
(* SpecLock: the handlers of the bridge around session.mu.  Every write to *)
(* the terminal and every setWinsize of the HTTP + WebSocket bridge stands  *)
(* between session.mu.Lock() and session.mu.Unlock(); handleStatus (like    *)
(* handleRead and handleWriteRead) reads the flags under RLock and the exit *)
(* waiter sets them under Lock.  A handler calls Lock (or RLock), is let in *)
(* when the lock allows, works on the terminal and unlocks.                 *)
(***************************************************************************)
\* critical sections one handler goes through
MaxOps == 1

\* what an entry does to the terminal: handleInit, the init of a push stream
\* and handleResize only resize
OpsOf(e) == IF e \in {"resize", "init"} THEN {"resize"} ELSE {"write", "resize"}

\* the handler reaches session.mu.Lock() or session.mu.RLock()
MuArrive(e, k) ==
    /\ lpc[e] = "idle" /\ nOps[e] < MaxOps
    /\ lpc' = [lpc EXCEPT ![e] = "wants"]
    /\ lop' = [lop EXCEPT ![e] = k]
    /\ UNCHANGED << mu, muReaders, inPty, nOps, offLock >>

\* (mutant) Lock lets the caller in while another holds the lock
MuLockShared(e) ==
    /\ e \in Entries \cup {"exitwaiter"} /\ lpc[e] = "wants"
    /\ mu' = e
    /\ lpc' = [lpc EXCEPT ![e] = "locked"]
    /\ UNCHANGED << muReaders, lop, inPty, nOps, offLock >>

\* sync.RWMutex.Lock returns: nobody holds the lock, for writing or reading
MuLock(e) ==
    /\ e \in Entries \cup {"exitwaiter"} /\ lpc[e] = "wants"
    /\ mu = "" /\ muReaders = {}
    /\ mu' = e
    /\ lpc' = [lpc EXCEPT ![e] = "locked"]
    /\ UNCHANGED << muReaders, lop, inPty, nOps, offLock >>

\* sync.RWMutex.RLock returns: nobody holds the lock for writing
MuRLock(r) ==
    /\ r \in FlagReaders /\ lpc[r] = "wants"
    /\ mu = ""
    /\ muReaders' = muReaders \cup {r}
    /\ lpc' = [lpc EXCEPT ![r] = "locked"]
    /\ UNCHANGED << mu, lop, inPty, nOps, offLock >>

\* session.ptmx.Write(data) or setWinsize(session.ptmx, ...) is entered
PtyBegin(e) ==
    /\ e \in Entries /\ lpc[e] = "locked"
    /\ inPty' = inPty \cup {e}
    /\ lpc' = [lpc EXCEPT ![e] = "inop"]
    /\ UNCHANGED << mu, muReaders, lop, nOps, offLock >>

\* and returns
PtyEnd(e) ==
    /\ e \in Entries /\ lpc[e] = "inop"
    /\ inPty' = inPty \ {e}
    /\ lpc' = [lpc EXCEPT ![e] = "opdone"]
    /\ UNCHANGED << mu, muReaders, lop, nOps, offLock >>

\* the exit waiter sets isRunning and exitCode, the readers copy them
FlagsDone(f) ==
    /\ f \in FlagReaders \cup {"exitwaiter"} /\ lpc[f] = "locked"
    /\ lpc' = [lpc EXCEPT ![f] = "opdone"]
    /\ UNCHANGED << mu, muReaders, lop, inPty, nOps, offLock >>

\* session.mu.Unlock()
MuUnlock(e) ==
    /\ e \in Entries \cup {"exitwaiter"} /\ lpc[e] = "opdone"
    /\ mu' = IF mu = e THEN "" ELSE mu
    /\ lpc' = [lpc EXCEPT ![e] = "idle"]
    /\ nOps' = [nOps EXCEPT ![e] = @ + 1]
    /\ UNCHANGED << muReaders, lop, inPty, offLock >>

\* session.mu.RUnlock()
MuRUnlock(r) ==
    /\ r \in FlagReaders /\ lpc[r] = "opdone"
    /\ muReaders' = muReaders \ {r}
    /\ lpc' = [lpc EXCEPT ![r] = "idle"]
    /\ nOps' = [nOps EXCEPT ![r] = @ + 1]
    /\ UNCHANGED << mu, lop, inPty, offLock >>

LockNext ==
    \/ \E e \in Entries, k \in {"write", "resize"} : k \in OpsOf(e) /\ MuArrive(e, k)
    \/ \E f \in FlagReaders \cup {"exitwaiter"} : MuArrive(f, "flags")
    \/ \E e \in Entries \cup {"exitwaiter"} : MuLock(e)
    \/ \E r \in FlagReaders : MuRLock(r)
    \/ \E e \in Entries : PtyBegin(e)
    \/ \E e \in Entries : PtyEnd(e)
    \/ \E f \in FlagReaders \cup {"exitwaiter"} : FlagsDone(f)
    \/ \E e \in Entries \cup {"exitwaiter"} : MuUnlock(e)
    \/ \E r \in FlagReaders : MuRUnlock(r)

SpecLock == StreamInit /\ [][LockNext]_vars

(***************************************************************************)
(* C23.  At most one handler is inside a write to or a resize of the       *)
(* pseudo-terminal, and it is the holder of session.mu, whichever of the    *)
(* five entries the writes and resizes come from.                          *)
(***************************************************************************)
C23_OneHandlerOnPty ==
    /\ Cardinality(inPty) <= 1
    /\ \A e \in inPty : mu = e /\ muReaders = {}

\* the push stream is writing to the terminal while the four other entries
\* wait at Lock, a write and three resizes among them
C23_Witness ==
    /\ inPty = {"stream"} /\ lop["stream"] = "write"
    /\ \A e \in Entries \ {"stream"} : lpc[e] = "wants"
    /\ lop["writeread"] = "write" /\ lop["write"] = "resize"


----------------------------------------------------------------------------
(***************************************************************************)
(* SpecPollers: two pollers of a running process, one by handleRead and    *)
(* one by handleWriteRead, drain the Output Buffer while the reader fills   *)
(* it; no more is produced than the buffer holds.                          *)
(***************************************************************************)
PollersNext ==
    \/ ReaderSelect
    \/ \E n \in 1..MaxChunk : ReaderTake(n, BufCeiling)
    \/ BroadcastLock("reader")
    \/ BroadcastUnlock("reader")
    \/ ReadBegin("p1")
    \/ WriteReadData("p2", EncodeToString(<<3>>))
    \/ WriteReadFlags("p2")
    \/ \E p \in Pollers : ReadDrain(p)

SpecPollers == StreamInit /\ [][PollersNext]_vars

\* the buffered reads that returned the k-th byte of the output
ReturnedBy(k) ==
    { i \in 1..Len(readLog) :
         \E j \in 1..Len(PayloadBytes(readLog[i].msgs)) :
            PayloadBytes(readLog[i].msgs)[j] = StreamByte(k) }

\* how often one buffered read returned the k-th byte
TimesIn(i, k) ==
    Cardinality({ j \in 1..Len(PayloadBytes(readLog[i].msgs)) :
                     PayloadBytes(readLog[i].msgs)[j] = StreamByte(k) })

\* the k-th byte is in the Output Buffer
Buffered(k) == \E j \in 1..Len(output) : output[j] = StreamByte(k)

(***************************************************************************)
(* C24.  Of the bytes the reader appended, each one is either still in the *)
(* Output Buffer and returned by no buffered read, or returned once by     *)
(* exactly one buffered read, however the pollers' drains interleave.      *)
(***************************************************************************)
C24_SlicesDisjointAndComplete ==
    \A k \in 1..nTaken :
        \/ Buffered(k) /\ ReturnedBy(k) = {}
        \/ /\ ~Buffered(k)
           /\ Cardinality(ReturnedBy(k)) = 1
           /\ \A i \in ReturnedBy(k) : TimesIn(i, k) = 1

\* both pollers stand before output.Read at once with bytes in the buffer,
\* after a buffered read that returned other bytes
C24_Witness ==
    /\ pc["p1"] = "drain" /\ pc["p2"] = "wrdrain" /\ output # << >>
    /\ \E i \in 1..Len(readLog) : PayloadBytes(readLog[i].msgs) # << >>


(***************************************************************************)
(* The relay's codec: proxy.Message, its constructors, Marshal and         *)
(* ParseMessage.  A marshalled message is a JSON object, here a function   *)
(* from the keys present on the wire to their values: encoding/json        *)
(* leaves out an omitempty field that holds its zero value, and gives a    *)
(* field whose key is absent its zero value when it parses.                *)
(***************************************************************************)
\* longest byte sequence encoded
MaxBytes == 3
\* the bytes of the inputs: NUL, ESC, a printable byte and 0xFF
CodecBytes == {0, 27, 65, 255}

RECURSIVE SeqsUpTo(_, _)
SeqsUpTo(S, n) ==
    IF n = 0 THEN {<< >>}
    ELSE LET shorter == SeqsUpTo(S, n - 1)
         IN  shorter \cup {Append(q, x) : q \in {r \in shorter : Len(r) = n - 1}, x \in S}

ByteSeqs == SeqsUpTo(CodecBytes, MaxBytes)

\* the fields of proxy.Message and their JSON keys
ProxyKeys == {"type", "cols", "rows", "repo", "data", "code", "timestamp", "error"}
ProxyOmitEmpty == ProxyKeys \ {"type"}
ProxyZero(k) ==
    CASE k \in {"cols", "rows", "code", "timestamp"} -> 0
      [] k = "data" -> << >>
      [] OTHER -> ""

\* json.Marshal of a proxy.Message (Marshal)
JsonMarshal(m) ==
    [k \in {"type"} \cup {f \in ProxyOmitEmpty : m[f] # ProxyZero(f)} |-> m[k]]

\* (mutant) a parser that does not give an absent field its zero value
JsonUnmarshalAbsentUnset(w) ==
    [k \in ProxyKeys |->
        IF k \in DOMAIN w THEN w[k]
        ELSE CASE k \in {"cols", "rows", "code", "timestamp"} -> 0 - 1
               [] k = "data" -> << Pad >>
               [] OTHER -> "unset"]

\* json.Unmarshal into a proxy.Message (ParseMessage): a key the struct does not have is
\* skipped, a field whose key is absent stays zero
JsonUnmarshal(w) ==
    [k \in ProxyKeys |-> IF k \in DOMAIN w THEN w[k] ELSE ProxyZero(k)]

\* the constructor calls made, zero arguments among them
Calls ==
    {[fn |-> "init", cols |-> g[1], rows |-> g[2], repo |-> r] :
        g \in Geoms \cup {<<0, 0>>, <<0, 24>>}, r \in {"", "user/repo"}}
    \cup {[fn |-> "resize", cols |-> g[1], rows |-> g[2]] :
        g \in Geoms \cup {<<0, 0>>, <<80, 0>>}}
    \cup {[fn |-> "exit", code |-> c] : c \in ExitCodes \cup {0 - 1}}
    \cup {[fn |-> "ping", timestamp |-> t] : t \in {0, 1700}}

Build(call) ==
    CASE call.fn = "init" -> NewInitMessage(call.cols, call.rows, call.repo)
      [] call.fn = "resize" -> NewResizeMessage(call.cols, call.rows)
      [] call.fn = "exit" -> NewExitMessage(call.code)
      [] call.fn = "ping" -> NewPingMessage(call.timestamp)

\* one input of each kind is at hand
CodecInit ==
    /\ BridgeInit /\ RelayIdle /\ PipeIdle /\ AuthIdle
    /\ FramesIdle /\ LockIdle /\ WritesIdle /\ TierIdle /\ EntryIdle /\ DevIdle /\ TcpIdle
    /\ cpc = "start"
    /\ cbytes \in ByteSeqs
    /\ ccall \in Calls
    /\ cmsg = NoMsg
    /\ cwire = NoWire
    /\ cparsed = NoMsg
    /\ cdecoded = [ok |-> TRUE, bytes |-> << >>]

\* the SSH reader: encode the bytes read, build a data message, marshal it
CodecEncode ==
    /\ cpc = "start"
    /\ cmsg' = NewDataMessage(EncodeToString(cbytes))
    /\ cwire' = JsonMarshal(cmsg')
    /\ cpc' = "sent"
    /\ UNCHANGED << cbytes, ccall, cparsed, cdecoded, offCodec >>

\* one of the other constructors, then Marshal
CodecBuild ==
    /\ cpc = "start"
    /\ cmsg' = Build(ccall)
    /\ cwire' = JsonMarshal(cmsg')
    /\ cpc' = "sent"
    /\ UNCHANGED << cbytes, ccall, cparsed, cdecoded, offCodec >>

\* the WebSocket reader: parse the message, decode the data of a data message
CodecParse ==
    /\ cpc = "sent"
    /\ cparsed' = JsonUnmarshal(cwire)
    /\ cdecoded' = IF cparsed'.type = "data"
                   THEN DecodeString(cparsed'.data)
                   ELSE cdecoded
    /\ cpc' = "received"
    /\ UNCHANGED << cbytes, ccall, cmsg, cwire, offCodec >>

\* the texts of the error messages sent to the relay
ErrTexts == {"Expected init message", "Container startup failed"}

\* conn.WriteJSON of the bridge's Message: json.Marshal with its omitempty tags
WriteJSON(m) ==
    [k \in {"type"} \cup {f \in DOMAIN m \ {"type"} : m[f] # ProxyZero(f)} |-> m[k]]

\* the bridge's sendWSError: the text goes into the Message field
BridgeSendError(t) ==
    /\ cpc = "start"
    /\ cmsg' = ErrorMsg(t)
    /\ cwire' = WriteJSON(cmsg')
    /\ cpc' = "errsent"
    /\ UNCHANGED << cbytes, ccall, cparsed, cdecoded, offCodec >>

\* the tier's server.send(JSON.stringify({type: 'error', message: ...}))
TierSendError(t) ==
    /\ cpc = "start"
    /\ cmsg' = [type |-> "error", message |-> t]
    /\ cwire' = [k \in {"type", "message"} |-> cmsg'[k]]
    /\ cpc' = "errsent"
    /\ UNCHANGED << cbytes, ccall, cparsed, cdecoded, offCodec >>

\* the relay's WebSocket reader on the error message: ParseMessage, then
\* "Error: %s\r\n" with msg.Error is written to the client
RelaySurface ==
    /\ cpc = "errsent"
    /\ cparsed' = JsonUnmarshal(cwire)
    /\ cpc' = "surfaced"
    /\ UNCHANGED << cbytes, ccall, cmsg, cwire, cdecoded, offCodec >>

CodecNext ==
    \/ CodecEncode
    \/ CodecBuild
    \/ CodecParse
    \/ \E t \in ErrTexts : BridgeSendError(t)
    \/ \E t \in ErrTexts : TierSendError(t)
    \/ RelaySurface

SpecCodec == CodecInit /\ [][CodecNext]_vars

\* C25: the bytes decoded from a data message are the bytes encoded into it,
\* and a message built by a constructor parses back, after Marshal, to the
\* same type and the same field values, zero fields left off the wire included
C25_CodecRoundTrip ==
    cpc = "received" =>
        /\ cparsed = cmsg
        /\ cmsg.type = "data" => cdecoded = [ok |-> TRUE, bytes |-> cbytes]

\* the empty byte sequence went round: its data field was not on the wire
C25_Witness ==
    /\ cpc = "received"
    /\ cmsg.type = "data"
    /\ cbytes = << >>
    /\ DOMAIN cwire = {"type"}
    /\ cdecoded.bytes = << >>

\* control bytes and an exit message with code 0 went round as well
ControlBytesWentRound ==
    /\ cpc = "received"
    /\ cmsg.type = "data"
    /\ cbytes = << 27, 0, 255 >>
    /\ cdecoded.bytes = cbytes

ZeroCodeWentRound ==
    /\ cpc = "received"
    /\ cmsg.type = "exit"
    /\ "code" \notin DOMAIN cwire
    /\ cparsed.code = 0


(***************************************************************************)
(* Termination of a relay session.                                         *)
(***************************************************************************)
\* C26: done is closed at most once and s.Exit runs at most once; done is
\* closed exactly when it has been closed once, and a handler that has
\* returned has reported the exit status exactly once
C26_TerminationOnce ==
    /\ nClose <= 1
    /\ nExit <= 1
    /\ rdone <=> nClose = 1
    /\ rpc["main"] = "exited" <=> nExit = 1

\* a session ended after downstream had sent an exit message and then
\* closed the stream: two causes to close done, one closing, one status
C26_Witness ==
    /\ rpc["main"] = "exited"
    /\ exitRecv # -1
    /\ peerClosed
    /\ nClose = 1
    /\ nExit = 1


(***************************************************************************)
(* The text of an error message, from its sender to the client.            *)
(***************************************************************************)
\* what the relay writes to the client for the error message it parsed
Surfaced == Written("Error: %s\r\n", cparsed.error, << >>)

\* C27: the text the relay surfaces for an error message of the bridge or
\* of the tier is the text its sender put into the message
C27_SurfacedTextIsSent ==
    cpc = "surfaced" => Surfaced.arg = cmsg.message

\* the message arrives as an error message, and its text is on the wire
\* under the key "message"
ErrorArrivesAsError ==
    cpc = "surfaced" =>
        /\ cparsed.type = "error"
        /\ cwire["message"] = cmsg.message

\* an error message has been surfaced with no text
SurfacedEmpty ==
    /\ cpc = "surfaced"
    /\ cmsg.message # ""
    /\ Surfaced.arg = ""


(***************************************************************************)
(* Pings: the tier answers and drains while it has no container stream,    *)
(* the bridge's push stream answers.                                       *)
(***************************************************************************)
\* the container stream's 'close' listener: the stream is gone
ContainerWsClose ==
    /\ containerWsReady
    /\ containerWsReady' = FALSE
    /\ cwsUp' = << >>
    /\ cwsDown' = << >>
    /\ UNCHANGED << typed, upQ, flight, replies, toRelay, nReq, nRelayPings, ptyIn,
                    output, nTaken, sinceDrain, overflowed, offPipe >>

\* the pings a peer sends on the bridge's push stream
PingFrames == { Marshal(Message("ping", 0, 0, <<>>, 0, "", ts)) : ts \in {0, 1700} }

PingNext ==
    \/ RelayPing
    \/ ContainerWsUp
    \/ ContainerWsClose
    \/ TierOnPing
    \/ \E id \in ReqIds : BridgeDrain(id)
    \/ \E id \in ReqIds : TierResume(id)
    \/ \E n \in 1..MaxChunk : PipeReaderTake(n)
    \/ \E f \in PingFrames \cup {GoodData} : WsLoopFrame("w1", f)

SpecPing == PollInit /\ [][PingNext]_vars

\* the tier takes a ping from the relay
TierTakesPing ==
    /\ upQ # << >> /\ Head(upQ).json /\ Head(upQ).fields.type = "ping"
    /\ upQ' = Tail(upQ)

\* the bridge's push stream c takes a ping in its loop
BridgeTakesPing(c) ==
    /\ Len(wsLog'[c]) = Len(wsLog[c]) + 1
    /\ LET f == wsLog'[c][Len(wsLog'[c])].frame
       IN  f.json /\ f.fields.type = "ping"

IsPongOf(msg, ts) == msg.type = "pong" /\ msg.timestamp = ts

\* the requests to the read entry the step has issued
DrainsIssued == { r \in flight' \ flight : r.path = "read" }

----------------------------------------------------------------------------
(***************************************************************************)
(* The exit message among the broadcasts of a push stream (SpecStream).    *)
(***************************************************************************)
\* a data message was written to the stream after an exit message
DataAfterExit(c) ==
    \E i, j \in 1..Len(sent[c]) :
        i < j /\ sent[c][i].type = "exit" /\ sent[c][j].type = "data"

\* the stream has been written an exit message
ExitWritten(c) == \E i \in 1..Len(sent[c]) : sent[c][i].type = "exit"

\* C29: no data message is written to a push stream after the exit message,
\* and when the exit message is written every chunk read from the terminal
\* has been broadcast: its Broadcast has taken the lock and has written
\* every stream it found in the Client Set
C29_ExitIsLastBroadcast ==
    \A c \in Conns :
        /\ ~DataAfterExit(c)
        /\ ExitWritten(c) =>
              \A k \in 1..Len(chunks) :
                  /\ chunks[k].locked
                  /\ \A d \in chunks[k].members : Pos(d, chunks[k].msg) > 0

\* what happens instead: a stream is written data after its exit message,
\* and the bridge ends with a chunk it read and never broadcast
DataAfterExitReached == \E c \in Conns : DataAfterExit(c)

ChunkNeverBroadcast ==
    /\ ~alive
    /\ \E c \in clients : ExitWritten(c) /\ ~DataAfterExit(c)
    /\ \E k \in 1..Len(chunks) : ~chunks[k].locked


----------------------------------------------------------------------------
(***************************************************************************)
(* Writers of one push-stream connection.  A write on a connection is a    *)
(* begin step and an end step; the message counts as written at the end.   *)
(* The goroutines that write: the output reader and the exit waiter inside *)
(* Broadcast, and the stream's own handler.                                *)
(***************************************************************************)
\* the goroutines inside a write on connection c
WritersOf(c) == { w[1] : w \in { x \in inWrite : x[2] = c } }

\* Broadcast, one turn of the range: client.WriteMessage begins
WriteBegin(b, c) ==
    /\ alive /\ pc[b] = "writing" /\ c \in btodo[b]
    /\ \A d \in Conns : <<b, d>> \notin inWrite
    /\ inWrite' = inWrite \cup { <<b, c>> }
    /\ UNCHANGED << alive, sessionOnce, session, isRunning, exitCode, done, winsize,
                    output, clients, pc, geom, btodo, bmsg, rdflags, nTaken, ptyIn,
                    sent, spawned, sessionsMade, winApplied, nWsMsgs, nBcast,
                    attachedAt, chunks, span, clientsAtExit, exitAudience, readLog,
                    statusLog, nPolls, sinceDrain, overflowed, offWrites >>

\* client.WriteMessage returns
WriteEnd(b, c) ==
    /\ alive /\ <<b, c>> \in inWrite /\ b \in Broadcasters
    /\ inWrite' = inWrite \ { <<b, c>> }
    /\ sent' = [sent EXCEPT ![c] = Append(@, bmsg[b])]
    /\ btodo' = [btodo EXCEPT ![b] = @ \ {c}]
    /\ UNCHANGED << alive, sessionOnce, session, isRunning, exitCode, done, winsize,
                    output, clients, pc, geom, bmsg, rdflags, nTaken, ptyIn, spawned,
                    sessionsMade, winApplied, nWsMsgs, nBcast, attachedAt, chunks, span,
                    clientsAtExit, exitAudience, readLog, statusLog, nPolls, sinceDrain,
                    overflowed, offWrites >>

\* the handler's conn.WriteJSON begins: "connected" after AddClient, or the
\* pong for a ping read in the loop
ReplyBegin(c) ==
    /\ alive /\ <<c, c>> \notin inWrite
    /\ \/ pc[c] = "hello"
       \/ pc[c] = "loop" /\ nWsMsgs[c] < MaxWsMsgs
    /\ inWrite' = inWrite \cup { <<c, c>> }
    /\ UNCHANGED << alive, sessionOnce, session, isRunning, exitCode, done, winsize,
                    output, clients, pc, geom, btodo, bmsg, rdflags, nTaken, ptyIn,
                    sent, spawned, sessionsMade, winApplied, nWsMsgs, nBcast,
                    attachedAt, chunks, span, clientsAtExit, exitAudience, readLog,
                    statusLog, nPolls, sinceDrain, overflowed, offWrites >>

\* the handler's conn.WriteJSON returns
ReplyEnd(c, ts) ==
    /\ alive /\ <<c, c>> \in inWrite
    /\ inWrite' = inWrite \ { <<c, c>> }
    /\ IF pc[c] = "hello"
       THEN /\ sent' = [sent EXCEPT ![c] = Append(@, PongMsg("connected", 0))]
            /\ pc' = [pc EXCEPT ![c] = "loop"]
            /\ UNCHANGED nWsMsgs
       ELSE /\ sent' = [sent EXCEPT ![c] = Append(@, PongMsg("", ts))]
            /\ nWsMsgs' = [nWsMsgs EXCEPT ![c] = @ + 1]
            /\ UNCHANGED pc
    /\ UNCHANGED << alive, sessionOnce, session, isRunning, exitCode, done, winsize,
                    output, clients, geom, btodo, bmsg, rdflags, nTaken, ptyIn, spawned,
                    sessionsMade, winApplied, nBcast, attachedAt, chunks, span,
                    clientsAtExit, exitAudience, readLog, statusLog, nPolls, sinceDrain,
                    overflowed, offWrites >>

WritesNext ==
    \/ WsConnect("w1")
    \/ WsFirstInit("w1", <<120, 40>>)
    \/ OncePass("w1")
    \/ CheckRunning("w1")
    \/ InitResize("w1")
    \/ AddClient("w1")
    \/ ReplyBegin("w1")
    \/ ReplyEnd("w1", 1700)
    \/ ReaderSelect
    \/ ReaderTake(1, MaxOut)
    \/ ReaderErr
    \/ \E code \in ExitCodes : WaiterExit(code)
    \/ \E b \in Broadcasters : BroadcastLock(b)
    \/ \E b \in Broadcasters : WriteBegin(b, "w1")
    \/ \E b \in Broadcasters : WriteEnd(b, "w1")
    \/ \E b \in Broadcasters : BroadcastUnlock(b)
    \/ OsExit

SpecWrites == StreamInit /\ [][WritesNext]_vars

\* C30: at most one goroutine is inside a write on a push-stream connection
C30_OneWriterPerConn ==
    \A c \in Conns : Cardinality(WritersOf(c)) <= 1

\* what does hold: a goroutine is inside one write at a time, and only the
\* handler writes on a connection that is not in the Client Set
OneWritePerGoroutine ==
    \A x, y \in inWrite : x[1] = y[1] => x = y

OnlyHandlerBeforeAttach ==
    \A c \in Conns : c \notin clients => WritersOf(c) \subseteq {c}

\* the overlaps: reader and exit waiter, reader and the handler's
\* "connected", all three at once
ReaderAndWaiterOverlap == {"reader", "waiter"} \subseteq WritersOf("w1")

ReaderAndHelloOverlap ==
    /\ {"reader", "w1"} \subseteq WritersOf("w1")
    /\ pc["w1"] = "hello"

ThreeWritersOverlap == WritersOf("w1") = {"reader", "waiter", "w1"}


----------------------------------------------------------------------------
(***************************************************************************)
(* Output that reaches the relay twice (SpecPipe).  The bytes the terminal *)
(* produces are pairwise different, so a byte that stands twice among the  *)
(* payloads forwarded to the relay was forwarded twice.                    *)
(***************************************************************************)
NoByteTwice(b) == \A i, j \in 1..Len(b) : i # j => b[i] # b[j]

\* C31: every chunk of terminal output is forwarded to the relay at most
\* once, by the container stream's listener or by a buffered read
C31_ForwardedAtMostOnce == NoByteTwice(PayloadBytes(toRelay))

\* while the tier has no container stream nothing is forwarded twice
OnceWhilePolling == ~containerWsReady => NoByteTwice(PayloadBytes(toRelay))

\* a byte was forwarded twice
ForwardedTwice ==
    /\ containerWsReady
    /\ Len(PayloadBytes(toRelay)) = 2
    /\ PayloadBytes(toRelay)[1] = PayloadBytes(toRelay)[2]


----------------------------------------------------------------------------
(***************************************************************************)
(* SpecTier: the intermediate tier and its container push streams.  Every  *)
(* await of containerFetch lets another event of the same instance run, so *)
(* connectContainerWebSocket is a step up to its await and a step after    *)
(* it.  A stream is named after the call that opened it.  close() on a     *)
(* stream is followed, later, by its 'close' event.                        *)
(***************************************************************************)
\* broadcasts of the bridge in one run
MaxTierChunks == 2

\* what the tier leaves of the path between relay and bridge
pipeRest == << typed, upQ, cwsUp, cwsDown, flight, replies, toRelay, nReq, nRelayPings >>

\* connectContainerWebSocket up to "await this.containerFetch": the init
\* handler calls it only if (!this.containerWsReady); closeContainerWs
\* closes the stream containerWs refers to, if any
ConnectBegin(t) ==
    /\ tcall[t] = "idle"
    /\ t \in InitHandlers => ~containerWsReady
    /\ tcall' = [tcall EXCEPT ![t] = "fetching"]
    /\ IF containerWs # "null"
       THEN /\ wsState' = [wsState EXCEPT ![containerWs] =
                              IF @ = "open" THEN "closing" ELSE @]
            /\ containerWs' = "null"
            /\ containerWsReady' = FALSE
       ELSE UNCHANGED << wsState, containerWs, containerWsReady >>
    /\ UNCHANGED << squeue, forwarded, nChunks, pipeRest, offTier >>

\* the response carries a WebSocket: accept, this.containerWs = ws, the init
\* message, the listeners, this.containerWsReady = true
ConnectOpen(t) ==
    /\ tcall[t] = "fetching"
    /\ tcall' = [tcall EXCEPT ![t] = "done"]
    /\ wsState' = [wsState EXCEPT ![t] = "open"]
    /\ containerWs' = t
    /\ containerWsReady' = TRUE
    /\ UNCHANGED << squeue, forwarded, nChunks, pipeRest, offTier >>

\* the response carries no WebSocket: return
ConnectNoWs(t) ==
    /\ tcall[t] = "fetching"
    /\ tcall' = [tcall EXCEPT ![t] = "done"]
    /\ UNCHANGED << containerWs, wsState, squeue, forwarded, nChunks, containerWsReady,
                    pipeRest, offTier >>

\* containerFetch throws: the catch clears containerWs and containerWsReady
ConnectThrows(t) ==
    /\ tcall[t] = "fetching"
    /\ tcall' = [tcall EXCEPT ![t] = "done"]
    /\ containerWs' = "null"
    /\ containerWsReady' = FALSE
    /\ UNCHANGED << wsState, squeue, forwarded, nChunks, pipeRest, offTier >>

\* the 'close' listener of stream s
CloseEvent(s) ==
    /\ wsState[s] = "closing"
    /\ wsState' = [wsState EXCEPT ![s] = "closed"]
    /\ squeue' = [squeue EXCEPT ![s] = << >>]
    /\ containerWs' = "null"
    /\ containerWsReady' = FALSE
    /\ UNCHANGED << tcall, forwarded, nChunks, pipeRest, offTier >>

\* the bridge broadcasts a chunk: one message on every open stream
TierBroadcast ==
    /\ nChunks < MaxTierChunks
    /\ nChunks' = nChunks + 1
    /\ squeue' = [s \in Callers |->
                    IF wsState[s] = "open" THEN Append(squeue[s], nChunks + 1)
                    ELSE squeue[s]]
    /\ UNCHANGED << containerWs, wsState, tcall, forwarded, containerWsReady, pipeRest,
                    offTier >>

\* the 'message' listener of stream s: broadcastToWebSockets
ListenerForward(s) ==
    /\ wsState[s] = "open" /\ squeue[s] # << >>
    /\ squeue' = [squeue EXCEPT ![s] = Tail(@)]
    /\ forwarded' = Append(forwarded, [stream |-> s, chunk |-> Head(squeue[s])])
    /\ UNCHANGED << containerWs, wsState, tcall, nChunks, containerWsReady, pipeRest,
                    offTier >>

TierNext ==
    \/ \E t \in Callers : ConnectBegin(t)
    \/ \E t \in Callers : ConnectOpen(t)
    \/ \E t \in Callers : ConnectNoWs(t)
    \/ \E t \in Callers : ConnectThrows(t)
    \/ \E s \in Callers : CloseEvent(s)
    \/ TierBroadcast
    \/ \E s \in Callers : ListenerForward(s)

SpecTier == StreamInit /\ [][TierNext]_vars

\* the step delivers the close event of stream s
CloseDelivered(s) == wsState[s] = "closing" /\ wsState'[s] = "closed"

\* C32: the close event of a stream the tier has replaced leaves the state
\* of the new stream as it is: while containerWs refers to another stream
\* that is open, containerWs and containerWsReady do not change
C32_StaleCloseKeepsNewStream ==
    [][\A s \in Callers :
          (CloseDelivered(s) /\ containerWs \in Callers \ {s}
             /\ wsState[containerWs] = "open")
            => UNCHANGED << containerWs, containerWsReady >>]_vars

\* an open stream that was marked ready, and the tier has forgotten it
OpenStreamForgotten ==
    \E s \in Callers :
        /\ wsState[s] = "open"
        /\ containerWs = "null" /\ ~containerWsReady
        /\ \A t \in Callers : tcall[t] # "fetching"
        /\ \E o \in Callers : wsState[o] = "closed"

\* the streams with a live listener
LiveStreams == { s \in Callers : wsState[s] = "open" }

\* C33: at most one container stream has a live listener, and no broadcast
\* of the bridge is forwarded to the client twice
C33_OneLiveStream ==
    /\ Cardinality(LiveStreams) <= 1
    /\ \A i, j \in 1..Len(forwarded) :
          i # j => forwarded[i].chunk # forwarded[j].chunk

\* one broadcast was forwarded by two streams
ForwardedByTwoStreams ==
    \E i, j \in 1..Len(forwarded) :
        /\ forwarded[i].chunk = forwarded[j].chunk
        /\ forwarded[i].stream # forwarded[j].stream


(***************************************************************************)
(* C34.  The push-stream entry of the bridge (handleWebSocket): a stream   *)
(* whose first message is not an init.                                     *)
(***************************************************************************)

\* the handler of stream c answered the first message with sendWSError
Refused(c) ==
    \E i \in 1..Len(sent[c]) : sent[c][i] = ErrorMsg("Expected init message")

\* the states of a handler between AddClient and the deferred RemoveClient
Attached == {"hello", "loop", "removing"}

\* C34: a stream whose first message is not a well-formed init is sent an
\* error message and closed; the step that refuses it starts no terminal
\* process, makes no session, resizes nothing and leaves the Client Set
\* alone, and the stream is never resized for or added afterwards; a stream
\* is in the Client Set only while its handler is between AddClient, which
\* follows a served init, and the RemoveClient at the end of its loop
C34_BadFirstMessageRefused ==
    /\ [](\A c \in Conns :
            Refused(c) =>
                /\ pc[c] = "closed"
                /\ sent[c] = << ErrorMsg("Expected init message") >>
                /\ c \notin clients
                /\ \A g \in Geoms : << c, g >> \notin winApplied)
    /\ [][\A c \in Conns :
            (~Refused(c) /\ Refused(c)') =>
                UNCHANGED << sessionOnce, session, spawned, sessionsMade, isRunning,
                             winsize, winApplied, clients >>]_vars
    /\ [](\A c \in Conns : c \in clients => pc[c] \in Attached /\ session = "set")

\* stream w1 was refused while the terminal process, started by an HTTP
\* init, was running with another geometry applied
C34_Witness ==
    /\ Refused("w1") /\ pc["w1"] = "closed"
    /\ isRunning /\ spawned = 1
    /\ \E h \in Reqs : \E g \in Geoms : << h, g >> \in winApplied


\* the first frame of stream c was handled and was not an init that parses
FirstNotInit(c) ==
    /\ Len(wsLog[c]) > 0
    /\ Unmarshal(wsLog[c][1].frame).err \/ Unmarshal(wsLog[c][1].frame).msg.type # "init"

\* with the frames spelled out (SpecFrames): whatever the first frame is, a
\* frame that does not parse or has another type than init ends the stream
\* with one error message, unattached and with no geometry applied for it
FirstFrameRefused ==
    \A c \in Conns :
        FirstNotInit(c) =>
            /\ pc[c] = "closed" /\ Len(wsLog[c]) = 1
            /\ wsLog[c][1].outcome = "closed"
            /\ Len(sent[c]) = 1 /\ sent[c][1].type = "error"
            /\ c \notin clients
            /\ \A g \in Geoms : << c, g >> \notin winApplied

\* reached (SpecFrames): a frame that is not JSON was refused as first frame
GarbageFirstRefused ==
    ~ (wsLog["w1"] = << Handled(Garbage, "closed") >> /\ pc["w1"] = "closed")


(***************************************************************************)
(* C35.  handleWrite, handleWriteRead and handleResize step by step: the   *)
(* guard "session == nil || !session.isRunning", the body under            *)
(* session.mu, and for write-then-read the flags and the drain.            *)
(***************************************************************************)

\* requests the three entries take in one run
MaxEntryCalls == 2
\* bytes the reader takes from the terminal in such a run
MaxEntryOut == 1

\* the bodies a caller may post
EntryFrames ==
    { GoodData, UnknownType, Garbage, Marshal(Message("resize", 120, 40, <<>>, 0, "", 0)) }

\* there is no session object, or its process is not running
Gone == session = "nil" \/ ~isRunning

Answered(e, f, reply, guardGone, gone, touched) ==
    [entry |-> e, frame |-> f, reply |-> reply, guardGone |-> guardGone,
     gone |-> gone, touched |-> touched]

\* the method is POST; "if session == nil || !session.isRunning" is answered
\* with sendError, otherwise the handler goes on to decode the body
EntryGuard(e, f) ==
    /\ alive /\ epc[e] = "idle"
    /\ Len(elog) + Cardinality({ x \in HttpEntries : epc[x] # "idle" }) < MaxEntryCalls
    /\ IF Gone
       THEN /\ elog' = Append(elog, Answered(e, f, "error", TRUE, TRUE, FALSE))
            /\ UNCHANGED << epc, ereq >>
       ELSE /\ epc' = [epc EXCEPT ![e] = "body"]
            /\ ereq' = [ereq EXCEPT ![e] = << [frame |-> f, gone |-> FALSE, touched |-> FALSE] >>]
            /\ elog' = elog
    /\ UNCHANGED << alive, sessionOnce, session, isRunning, exitCode, done, winsize,
                    output, clients, pc, geom, btodo, bmsg, rdflags, nTaken, ptyIn,
                    sent, spawned, sessionsMade, winApplied, nWsMsgs, nBcast,
                    attachedAt, chunks, span, clientsAtExit, exitAudience, readLog,
                    statusLog, nPolls, sinceDrain, overflowed, offEntries >>

\* the body is decoded and handled: handleResize applies cols and rows of
\* whatever parses; handleWrite and handleWriteRead write the data of a data
\* message, apply a resize and answer any other type with sendError. A write
\* to the terminal of a process that has exited fails or succeeds (wrote).
EntryBody(e, wrote) ==
    /\ alive /\ epc[e] = "body"
    /\ isRunning => wrote
    /\ LET f == ereq[e][1].frame
           u == Unmarshal(f)
           d == DecodeString(u.msg.data)
           act == IF u.err THEN "error"
                  ELSE IF e = "resize" THEN "resize"
                  ELSE IF u.msg.type = "data"
                       THEN (IF d.ok /\ wrote THEN "data" ELSE "error")
                  ELSE IF u.msg.type = "resize" THEN "resize"
                  ELSE "error"
       IN  /\ ptyIn' = IF act = "data" THEN ptyIn \o d.bytes ELSE ptyIn
           /\ winsize' = IF act = "resize" THEN << u.msg.cols, u.msg.rows >> ELSE winsize
           /\ IF act = "error"
              THEN /\ elog' = Append(elog, Answered(e, f, "error", FALSE, FALSE, FALSE))
                   /\ epc' = [epc EXCEPT ![e] = "idle"]
                   /\ ereq' = [ereq EXCEPT ![e] = << >>]
              ELSE IF e = "writeread"
              THEN /\ epc' = [epc EXCEPT ![e] = "flags"]
                   /\ ereq' = [ereq EXCEPT ![e] = << [frame |-> f, gone |-> Gone, touched |-> TRUE] >>]
                   /\ elog' = elog
              ELSE /\ elog' = Append(elog, Answered(e, f, "success", FALSE, Gone, TRUE))
                   /\ epc' = [epc EXCEPT ![e] = "idle"]
                   /\ ereq' = [ereq EXCEPT ![e] = << >>]
    /\ UNCHANGED << alive, sessionOnce, session, isRunning, exitCode, done, output,
                    clients, pc, geom, btodo, bmsg, rdflags, nTaken, sent, spawned,
                    sessionsMade, winApplied, nWsMsgs, nBcast, attachedAt, chunks, span,
                    clientsAtExit, exitAudience, readLog, statusLog, nPolls, sinceDrain,
                    overflowed, offEntries >>

\* handleWriteRead: isRunning and exitCode are read under session.mu.RLock
EntryFlags(e) ==
    /\ alive /\ epc[e] = "flags"
    /\ rdflags' = [rdflags EXCEPT !["p1"] =
                      [isRunning |-> isRunning, exitCode |-> exitCode, afterExit |-> done]]
    /\ epc' = [epc EXCEPT ![e] = "drain"]
    /\ UNCHANGED << alive, sessionOnce, session, isRunning, exitCode, done, winsize,
                    output, clients, pc, geom, btodo, bmsg, nTaken, ptyIn, sent,
                    spawned, sessionsMade, winApplied, nWsMsgs, nBcast, attachedAt,
                    chunks, span, clientsAtExit, exitAudience, readLog, statusLog,
                    nPolls, sinceDrain, overflowed, ereq, elog, offEntries >>

\* handleWriteRead: data := session.output.Read(); the data and, when the
\* flags said so, the exit message are written as the reply
EntryDrain(e) ==
    /\ alive /\ epc[e] = "drain"
    /\ LET r == BufferRead(output)
       IN  /\ output' = r.rest
           /\ elog' = Append(elog,
                  Answered(e, ereq[e][1].frame, "messages", FALSE,
                           ereq[e][1].gone \/ Gone, TRUE))
    /\ sinceDrain' = 0
    /\ epc' = [epc EXCEPT ![e] = "idle"]
    /\ ereq' = [ereq EXCEPT ![e] = << >>]
    /\ UNCHANGED << alive, sessionOnce, session, isRunning, exitCode, done, winsize,
                    clients, pc, geom, btodo, bmsg, rdflags, nTaken, ptyIn, sent,
                    spawned, sessionsMade, winApplied, nWsMsgs, nBcast, attachedAt,
                    chunks, span, clientsAtExit, exitAudience, readLog, statusLog,
                    nPolls, overflowed, offEntries >>

\* the bridge from its start up to the exit waiter's broadcast, with one HTTP
\* init, the reader and the three entries
EntriesNext ==
    \/ InitArrive("h1", << 80, 24 >>)
    \/ InitializeSessionOk("h1")
    \/ InitializeSessionFail("h1")
    \/ InitErrReply("h1")
    \/ CheckRunning("h1")
    \/ InitResize("h1")
    \/ InitReply("h1")
    \/ ReaderSelect
    \/ ReaderTake(MaxEntryOut, MaxEntryOut)
    \/ ReaderErr
    \/ \E code \in ExitCodes : WaiterExit(code)
    \/ \E e \in HttpEntries, f \in EntryFrames : EntryGuard(e, f)
    \/ \E e \in HttpEntries, wrote \in BOOLEAN : EntryBody(e, wrote)
    \/ EntryFlags("writeread")
    \/ EntryDrain("writeread")

SpecEntries == Init /\ [][EntriesNext]_vars

\* the body parses and its type is neither data nor resize
OtherType(f) == ~Unmarshal(f).err /\ Unmarshal(f).msg.type \notin {"data", "resize"}

\* C35: a request to the write, write-then-read or resize entry that is
\* handled while no session object exists or the process is not running is
\* answered with an error and leaves the terminal, its geometry and the
\* Output Buffer as they are; so is a request to the write or write-then-read
\* entry whose type is neither data nor resize
C35_GoneOrOtherTypeRefused ==
    \A i \in 1..Len(elog) :
        (elog[i].gone \/ (elog[i].entry # "resize" /\ OtherType(elog[i].frame)))
            => elog[i].reply = "error" /\ ~elog[i].touched

\* holds: what the guard finds gone is refused and touches nothing, and so
\* is every other type on the write and write-then-read entries
RefusedAtGuardOrOtherType ==
    \A i \in 1..Len(elog) :
        (elog[i].guardGone \/ (elog[i].entry # "resize" /\ OtherType(elog[i].frame)))
            => elog[i].reply = "error" /\ ~elog[i].touched

\* reached: the guard refused a write after the start of the process failed
\* and left no session object
NoSessionRefused ==
    ~ \E i \in 1..Len(elog) :
         /\ elog[i].guardGone /\ elog[i].entry = "write" /\ elog[i].reply = "error"
         /\ session = "nil" /\ sessionOnce = "done"

\* reached: the guard refused a request after the exit, and the
\* write-then-read entry refused an unknown type while the process ran
AfterExitAndOtherTypeRefused ==
    ~ \E i, j \in 1..Len(elog) :
         /\ elog[i].guardGone /\ session = "set" /\ elog[i].reply = "error"
         /\ elog[j].entry = "writeread" /\ ~elog[j].guardGone
         /\ OtherType(elog[j].frame) /\ elog[j].reply = "error"

\* reached: the resize entry applied a geometry after the process had exited
ResizedAfterExit ==
    ~ \E i \in 1..Len(elog) :
         /\ elog[i].entry = "resize" /\ elog[i].gone /\ elog[i].reply = "success"
         /\ winsize = << 120, 40 >> /\ ~isRunning

\* reached: the write-then-read entry drained a filled Output Buffer after
\* the process had exited and replied with messages
DrainedAfterExit ==
    ~ \E i \in 1..Len(elog) :
         /\ elog[i].entry = "writeread" /\ elog[i].gone /\ elog[i].reply = "messages"
         /\ nTaken > 0 /\ output = << >> /\ ~isRunning


(***************************************************************************)
(* C36.  The local development proxy: handleWebSocket initialises the      *)
(* container over HTTP, then one goroutine polls the read entry and writes *)
(* each line to the client's stream and one reads the stream and posts to  *)
(* the write entry; both close the handler's done channel.                 *)
(***************************************************************************)

\* bodies the read entry returns in one run, and messages the client sends
MaxDevReads == 2
MaxDevMsgs == 1

\* what GET /read of the bridge may return: the lines of handleRead's reply
DevBodies == { ReadReply(d, r, 0) : d \in { << >>, << 97 >> }, r \in BOOLEAN }

\* what the client may send on its stream
DevFrames ==
    { GoodData, Garbage, Marshal(Message("ping", 0, 0, <<>>, 0, "", 1700)),
      Marshal(Message("init", 120, 40, <<>>, 0, "", 0)) }

\* close(done): closing a closed channel panics, and the panic of a goroutine
\* ends the process
CloseDone(p) ==
    /\ dcloses' = dcloses + 1
    /\ IF ddone
       THEN /\ dalive' = FALSE
            /\ dpc' = [dpc EXCEPT ![p] = "panicked"]
            /\ ddone' = ddone
       ELSE /\ ddone' = TRUE
            /\ dpc' = [dpc EXCEPT ![p] = "returned"]
            /\ dalive' = dalive

\* the upgrade succeeded; POST /init to the container succeeds with 200 and
\* the two goroutines are started
DevInitOk ==
    /\ dalive /\ dpc["main"] = "idle"
    /\ dpc' = [dpc EXCEPT !["main"] = "wait", !["poller"] = "select", !["reader"] = "select"]
    /\ UNCHANGED << dalive, ddone, dcloses, dpeer, dlines, dsent, dposted, dnReads,
                    dnMsgs, offDev >>

\* POST /init fails or answers another status: sendError, and the handler
\* returns
DevInitFail ==
    /\ dalive /\ dpc["main"] = "idle"
    /\ dsent' = Append(dsent, ErrorMsg("Failed to initialize container"))
    /\ dpc' = [dpc EXCEPT !["main"] = "ended"]
    /\ UNCHANGED << dalive, ddone, dcloses, dpeer, dlines, dposted, dnReads, dnMsgs,
                    offDev >>

\* the poller's select: done closed, return; otherwise the default branch
DevPollSelect ==
    /\ dalive /\ dpc["poller"] = "select"
    /\ dpc' = [dpc EXCEPT !["poller"] = IF ddone THEN "returned" ELSE "get"]
    /\ UNCHANGED << dalive, ddone, dcloses, dpeer, dlines, dsent, dposted, dnReads,
                    dnMsgs, offDev >>

\* http.Get(containerURL + "/read") returns a body; an empty one is slept on
DevPollGet(body) ==
    /\ dalive /\ dpc["poller"] = "get" /\ dnReads < MaxDevReads
    /\ dnReads' = dnReads + 1
    /\ dlines' = body
    /\ dpc' = [dpc EXCEPT !["poller"] = IF body = << >> THEN "select" ELSE "forward"]
    /\ UNCHANGED << dalive, ddone, dcloses, dpeer, dsent, dposted, dnMsgs, offDev >>

\* http.Get fails: sleep 100 ms and continue
DevPollGetErr ==
    /\ dalive /\ dpc["poller"] = "get" /\ dnReads < MaxDevReads
    /\ dnReads' = dnReads + 1
    /\ dpc' = [dpc EXCEPT !["poller"] = "select"]
    /\ UNCHANGED << dalive, ddone, dcloses, dpeer, dlines, dsent, dposted, dnMsgs,
                    offDev >>

\* one line of the body: conn.WriteMessage, which can fail once the client
\* has closed; a line that is an exit message closes done and ends the poller
DevPollForward(ok) ==
    /\ dalive /\ dpc["poller"] = "forward"
    /\ dpeer = "open" => ok
    /\ IF ~ok
       THEN /\ dpc' = [dpc EXCEPT !["poller"] = "returned"]
            /\ UNCHANGED << dsent, dlines, ddone, dcloses, dalive >>
       ELSE /\ dsent' = Append(dsent, Head(dlines))
            /\ dlines' = Tail(dlines)
            /\ IF Head(dlines).type = "exit"
               THEN CloseDone("poller")
               ELSE /\ dpc' = [dpc EXCEPT !["poller"] =
                                  IF Tail(dlines) = << >> THEN "select" ELSE "forward"]
                    /\ UNCHANGED << ddone, dcloses, dalive >>
    /\ UNCHANGED << dpeer, dposted, dnReads, dnMsgs, offDev >>

\* the reader's select: done closed, return; otherwise conn.ReadMessage
DevReadSelect ==
    /\ dalive /\ dpc["reader"] = "select"
    /\ dpc' = [dpc EXCEPT !["reader"] = IF ddone THEN "returned" ELSE "read"]
    /\ UNCHANGED << dalive, ddone, dcloses, dpeer, dlines, dsent, dposted, dnReads,
                    dnMsgs, offDev >>

\* conn.ReadMessage returns a message: data and resize are posted to the
\* write entry as they are, a ping is answered, an init is posted as a
\* resize, anything else is skipped
DevReadMsg(f) ==
    /\ dalive /\ dpc["reader"] = "read" /\ dpeer = "open" /\ dnMsgs < MaxDevMsgs
    /\ dnMsgs' = dnMsgs + 1
    /\ LET u == Unmarshal(f)
           t == IF u.err THEN "" ELSE u.msg.type
       IN  /\ dposted' = IF t \in {"data", "resize"} THEN Append(dposted, f)
                         ELSE IF t = "init"
                         THEN Append(dposted,
                                     Marshal(Message("resize", u.msg.cols, u.msg.rows,
                                                     <<>>, 0, "", 0)))
                         ELSE dposted
           /\ dsent' = IF t = "ping" THEN Append(dsent, PongMsg("", u.msg.timestamp))
                       ELSE dsent
    /\ dpc' = [dpc EXCEPT !["reader"] = "select"]
    /\ UNCHANGED << dalive, ddone, dcloses, dpeer, dlines, dnReads, offDev >>

\* conn.ReadMessage fails (the client has closed): close(done) and return
DevReadErr ==
    /\ dalive /\ dpc["reader"] = "read" /\ dpeer = "closed"
    /\ CloseDone("reader")
    /\ UNCHANGED << dpeer, dlines, dsent, dposted, dnReads, dnMsgs, offDev >>

\* the client closes its end of the stream
DevPeerClose ==
    /\ dalive /\ dpc["main"] = "wait" /\ dpeer = "open"
    /\ dpeer' = "closed"
    /\ UNCHANGED << dalive, dpc, ddone, dcloses, dlines, dsent, dposted, dnReads,
                    dnMsgs, offDev >>

\* wg.Wait returns once both goroutines have returned
DevWaitDone ==
    /\ dalive /\ dpc["main"] = "wait"
    /\ dpc["poller"] = "returned" /\ dpc["reader"] = "returned"
    /\ dpc' = [dpc EXCEPT !["main"] = "ended"]
    /\ UNCHANGED << dalive, ddone, dcloses, dpeer, dlines, dsent, dposted, dnReads,
                    dnMsgs, offDev >>

DevNext ==
    \/ DevInitOk
    \/ DevInitFail
    \/ DevPollSelect
    \/ \E body \in DevBodies : DevPollGet(body)
    \/ DevPollGetErr
    \/ \E ok \in BOOLEAN : DevPollForward(ok)
    \/ DevReadSelect
    \/ \E f \in DevFrames : DevReadMsg(f)
    \/ DevReadErr
    \/ DevPeerClose
    \/ DevWaitDone

SpecDev == Init /\ [][DevNext]_vars

\* C36: the done channel of a session of the local proxy is closed at most
\* once: the poller's close after forwarding an exit message and the
\* reader's close on a read error never both happen
C36_DoneClosedAtMostOnce == dcloses <= 1

\* reached: the poller forwarded the exit message and closed done while the
\* reader was inside conn.ReadMessage; the client then closed and the
\* reader's close(done) panicked
ExitThenReadErrPanics ==
    ~ /\ dpc["poller"] = "returned" /\ dpc["reader"] = "panicked"
      /\ dcloses = 2 /\ ~dalive
      /\ dsent # << >> /\ dsent[Len(dsent)].type = "exit"

\* reached: the reader closed done on a read error while the poller was
\* forwarding a body; the poller's close(done) after the exit line panicked
ReadErrThenExitPanics ==
    ~ (dpc["reader"] = "returned" /\ dpc["poller"] = "panicked" /\ dcloses = 2)

\* holds: a second close is a panic that ends the process, and nothing
\* closes done a third time
SecondClosePanics ==
    /\ dcloses <= 2
    /\ dcloses = 2 <=> ~dalive
    /\ ddone <=> dcloses >= 1

\* reached: a session ends in order, done closed once
DevEndedInOrder == ~ (dpc["main"] = "ended" /\ dcloses = 1 /\ dalive)


(***************************************************************************)
(* C37.  The TCP variant: handleConnection reads the init line, starts the *)
(* terminal process, runs the output and the input goroutine, waits for    *)
(* the process, closes done, waits for the goroutines and sends the exit   *)
(* message.                                                                *)
(***************************************************************************)

\* lines the peer sends after the init, and chunks the output goroutine reads
MaxTcpLines == 1
MaxTcpOut == 1

\* the lines a peer may send
TcpFrames ==
    { GoodData, Garbage, Marshal(Message("resize", 120, 40, <<>>, 0, "", 0)),
      Marshal(ExitMsg(0)), Marshal(Message("init", 80, 24, <<>>, 0, "", 0)) }

\* close(done) by goroutine p, which then stands at next: closing a closed
\* channel panics, and the panic ends the bridge process
TcpCloseDone(p, next) ==
    /\ tcpCloses' = tcpCloses + 1
    /\ IF tcpDone
       THEN /\ tcpAlive' = FALSE
            /\ tcpPc' = [tcpPc EXCEPT ![p] = "panicked"]
            /\ tcpDone' = tcpDone
       ELSE /\ tcpDone' = TRUE
            /\ tcpPc' = [tcpPc EXCEPT ![p] = next]
            /\ tcpAlive' = tcpAlive

\* the first line is an init and pty.StartWithSize succeeds: the two
\* goroutines start and the handler waits for the process
TcpInitOk(f) ==
    /\ tcpAlive /\ tcpPc["main"] = "idle"
    /\ ~Unmarshal(f).err /\ Unmarshal(f).msg.type = "init"
    /\ tcpRunning' = TRUE
    /\ tcpWinsize' = << Unmarshal(f).msg.cols, Unmarshal(f).msg.rows >>
    /\ tcpPc' = [tcpPc EXCEPT !["main"] = "cmdwait", !["output"] = "select",
                              !["input"] = "scan"]
    /\ UNCHANGED << tcpAlive, tcpDone, tcpCloses, tcpCode, tcpPeer, tcpSent, tcpPtyIn,
                    tcpLines, tcpOut, offTcp >>

\* the first line does not parse or is not an init: the handler returns
TcpInitBad(f) ==
    /\ tcpAlive /\ tcpPc["main"] = "idle"
    /\ Unmarshal(f).err \/ Unmarshal(f).msg.type # "init"
    /\ tcpPc' = [tcpPc EXCEPT !["main"] = "ended"]
    /\ UNCHANGED << tcpAlive, tcpDone, tcpCloses, tcpRunning, tcpCode, tcpPeer, tcpSent,
                    tcpPtyIn, tcpWinsize, tcpLines, tcpOut, offTcp >>

\* pty.StartWithSize fails: an exit message with code 1 is sent
TcpStartFail(f) ==
    /\ tcpAlive /\ tcpPc["main"] = "idle"
    /\ ~Unmarshal(f).err /\ Unmarshal(f).msg.type = "init"
    /\ tcpSent' = Append(tcpSent, ExitMsg(1))
    /\ tcpPc' = [tcpPc EXCEPT !["main"] = "ended"]
    /\ UNCHANGED << tcpAlive, tcpDone, tcpCloses, tcpRunning, tcpCode, tcpPeer,
                    tcpPtyIn, tcpWinsize, tcpLines, tcpOut, offTcp >>

\* the terminal process exits
TcpProcExit(code) ==
    /\ tcpAlive /\ tcpRunning
    /\ tcpRunning' = FALSE
    /\ tcpCode' = code
    /\ UNCHANGED << tcpAlive, tcpPc, tcpDone, tcpCloses, tcpPeer, tcpSent, tcpPtyIn,
                    tcpWinsize, tcpLines, tcpOut, offTcp >>

\* cmd.Wait returns
TcpWaitReturns ==
    /\ tcpAlive /\ tcpPc["main"] = "cmdwait" /\ ~tcpRunning
    /\ tcpPc' = [tcpPc EXCEPT !["main"] = "select"]
    /\ UNCHANGED << tcpAlive, tcpDone, tcpCloses, tcpRunning, tcpCode, tcpPeer, tcpSent,
                    tcpPtyIn, tcpWinsize, tcpLines, tcpOut, offTcp >>

\* select { case <-done: default: ... }: the handler finds done closed or open
TcpMainSelect ==
    /\ tcpAlive /\ tcpPc["main"] = "select"
    /\ tcpPc' = [tcpPc EXCEPT !["main"] = IF tcpDone THEN "wgwait" ELSE "close"]
    /\ UNCHANGED << tcpAlive, tcpDone, tcpCloses, tcpRunning, tcpCode, tcpPeer, tcpSent,
                    tcpPtyIn, tcpWinsize, tcpLines, tcpOut, offTcp >>

\* the default branch: close(done)
TcpMainClose ==
    /\ tcpAlive /\ tcpPc["main"] = "close"
    /\ TcpCloseDone("main", "wgwait")
    /\ UNCHANGED << tcpRunning, tcpCode, tcpPeer, tcpSent, tcpPtyIn, tcpWinsize, tcpLines,
                    tcpOut, offTcp >>

\* wg.Wait returns once both goroutines have returned; the exit message is
\* sent and the handler returns
TcpSendExit ==
    /\ tcpAlive /\ tcpPc["main"] = "wgwait"
    /\ tcpPc["output"] = "returned" /\ tcpPc["input"] = "returned"
    /\ tcpSent' = Append(tcpSent, ExitMsg(tcpCode))
    /\ tcpPc' = [tcpPc EXCEPT !["main"] = "ended"]
    /\ UNCHANGED << tcpAlive, tcpDone, tcpCloses, tcpRunning, tcpCode, tcpPeer,
                    tcpPtyIn, tcpWinsize, tcpLines, tcpOut, offTcp >>

\* the output goroutine's select
TcpOutSelect ==
    /\ tcpAlive /\ tcpPc["output"] = "select"
    /\ tcpPc' = [tcpPc EXCEPT !["output"] = IF tcpDone THEN "returned" ELSE "read"]
    /\ UNCHANGED << tcpAlive, tcpDone, tcpCloses, tcpRunning, tcpCode, tcpPeer, tcpSent,
                    tcpPtyIn, tcpWinsize, tcpLines, tcpOut, offTcp >>

\* ptmx.Read returns a chunk, which is sent as a data message; a failed send
\* (possible once the peer has closed) ends the goroutine
TcpOutRead(ok) ==
    /\ tcpAlive /\ tcpPc["output"] = "read" /\ tcpRunning /\ tcpOut < MaxTcpOut
    /\ tcpPeer = "open" => ok
    /\ tcpOut' = tcpOut + 1
    /\ tcpSent' = IF ok THEN Append(tcpSent, DataMsg(<< StreamByte(tcpOut + 1) >>))
                  ELSE tcpSent
    /\ tcpPc' = [tcpPc EXCEPT !["output"] = IF ok THEN "select" ELSE "returned"]
    /\ UNCHANGED << tcpAlive, tcpDone, tcpCloses, tcpRunning, tcpCode, tcpPeer,
                    tcpPtyIn, tcpWinsize, tcpLines, offTcp >>

\* ptmx.Read fails after the process has exited
TcpOutErr ==
    /\ tcpAlive /\ tcpPc["output"] = "read" /\ ~tcpRunning
    /\ tcpPc' = [tcpPc EXCEPT !["output"] = "returned"]
    /\ UNCHANGED << tcpAlive, tcpDone, tcpCloses, tcpRunning, tcpCode, tcpPeer, tcpSent,
                    tcpPtyIn, tcpWinsize, tcpLines, tcpOut, offTcp >>

\* scanner.Scan returns a line that keeps the loop going: one that does not
\* parse, data that does not decode or is written (after the exit the write
\* may still succeed), a resize, another type
TcpLine(f) ==
    /\ tcpAlive /\ tcpPc["input"] = "scan" /\ tcpPeer = "open" /\ tcpLines < MaxTcpLines
    /\ LET u == Unmarshal(f)
           d == DecodeString(u.msg.data)
       IN  /\ u.err \/ u.msg.type # "exit"
           /\ tcpPtyIn' = IF ~u.err /\ u.msg.type = "data" /\ d.ok
                          THEN tcpPtyIn \o d.bytes ELSE tcpPtyIn
           /\ tcpWinsize' = IF ~u.err /\ u.msg.type = "resize"
                            THEN << u.msg.cols, u.msg.rows >> ELSE tcpWinsize
    /\ tcpLines' = tcpLines + 1
    /\ UNCHANGED << tcpAlive, tcpPc, tcpDone, tcpCloses, tcpRunning, tcpCode, tcpPeer,
                    tcpSent, tcpOut, offTcp >>

\* a line that ends the goroutine: an exit message, or data whose write to
\* the terminal of an exited process fails; the deferred close(done) runs
TcpLineReturn(f) ==
    /\ tcpAlive /\ tcpPc["input"] = "scan" /\ tcpPeer = "open" /\ tcpLines < MaxTcpLines
    /\ LET u == Unmarshal(f)
       IN  /\ ~u.err
           /\ \/ u.msg.type = "exit"
              \/ u.msg.type = "data" /\ DecodeString(u.msg.data).ok /\ ~tcpRunning
    /\ tcpLines' = tcpLines + 1
    /\ TcpCloseDone("input", "returned")
    /\ UNCHANGED << tcpRunning, tcpCode, tcpPeer, tcpSent, tcpPtyIn, tcpWinsize, tcpOut,
                    offTcp >>

\* scanner.Scan returns false (the peer has closed): the goroutine returns
\* and the deferred close(done) runs
TcpScanEnd ==
    /\ tcpAlive /\ tcpPc["input"] = "scan" /\ tcpPeer = "closed"
    /\ TcpCloseDone("input", "returned")
    /\ UNCHANGED << tcpRunning, tcpCode, tcpPeer, tcpSent, tcpPtyIn, tcpWinsize, tcpLines,
                    tcpOut, offTcp >>

\* the peer closes its end of the connection
TcpPeerClose ==
    /\ tcpAlive /\ tcpPc["main"] # "idle" /\ tcpPeer = "open"
    /\ tcpPeer' = "closed"
    /\ UNCHANGED << tcpAlive, tcpPc, tcpDone, tcpCloses, tcpRunning, tcpCode, tcpSent,
                    tcpPtyIn, tcpWinsize, tcpLines, tcpOut, offTcp >>

\* the steps of the bridge itself
TcpOwnNext ==
    \/ TcpWaitReturns
    \/ TcpMainSelect
    \/ TcpMainClose
    \/ TcpSendExit
    \/ TcpOutSelect
    \/ \E ok \in BOOLEAN : TcpOutRead(ok)
    \/ TcpOutErr
    \/ TcpScanEnd

TcpNext ==
    \/ \E f \in TcpFrames : TcpInitOk(f)
    \/ \E f \in TcpFrames : TcpInitBad(f)
    \/ \E f \in TcpFrames : TcpStartFail(f)
    \/ \E code \in ExitCodes : TcpProcExit(code)
    \/ TcpWaitReturns
    \/ TcpMainSelect
    \/ TcpMainClose
    \/ TcpSendExit
    \/ TcpOutSelect
    \/ \E ok \in BOOLEAN : TcpOutRead(ok)
    \/ TcpOutErr
    \/ \E f \in TcpFrames : TcpLine(f)
    \/ \E f \in TcpFrames : TcpLineReturn(f)
    \/ TcpScanEnd
    \/ TcpPeerClose

SpecTcp == Init /\ [][TcpNext]_vars

\* the exit message with the process's code is on the connection
TcpExitSent ==
    \E i \in 1..Len(tcpSent) : tcpSent[i] = ExitMsg(tcpCode)

\* C37: the done channel of a connection of the TCP variant is closed at
\* most once, whatever the order of the process's exit and the end of the
\* input loop; (the second half, that the exit message follows the exit
\* without further input of the peer, is ExitWaitsForPeer below)
C37_TcpDoneClosedAtMostOnce == tcpCloses <= 1

\* reached: the process exited, the handler closed done, and the input
\* goroutine's deferred close(done) panicked when the peer closed
MainThenInputPanics ==
    ~ /\ tcpPc["main"] = "wgwait" /\ tcpPc["input"] = "panicked"
      /\ tcpCloses = 2 /\ ~tcpAlive /\ ~TcpExitSent

\* reached: the handler found done open, the input goroutine returned on an
\* exit line and closed it, and the handler's close(done) panicked
InputThenMainPanics ==
    ~ (tcpPc["main"] = "panicked" /\ tcpPc["input"] = "returned" /\ tcpCloses = 2)

\* reached: the process has exited and the bridge can take no step of its
\* own: the handler is in wg.Wait, the input goroutine in scanner.Scan with
\* the peer connected and silent, and no exit message was sent
ExitWaitsForPeer ==
    ~ /\ tcpAlive /\ ~tcpRunning /\ tcpPc["main"] = "wgwait"
      /\ tcpPc["input"] = "scan" /\ tcpPeer = "open"
      /\ ~TcpExitSent
      /\ ~ENABLED TcpOwnNext

\* holds: once the handler has closed done itself, the exit message is never
\* sent: the input goroutine's return panics first
NoExitAfterMainClose ==
    (tcpDone /\ tcpPc["input"] \in {"scan", "panicked"} /\ tcpPc["main"] \in {"wgwait", "panicked"})
        => ~TcpExitSent

\* reached: the input loop ended first, done was closed once and the exit
\* message with the code was sent
TcpEndedInOrder ==
    ~ (tcpPc["main"] = "ended" /\ tcpCloses = 1 /\ tcpCode = 2 /\ TcpExitSent)

=============================================================================
